---- MODULE Spec2Model ----
(***************************************************************************)
(* Model of draftly: the CodeMirror view plugin that rebuilds decorations  *)
(* from the plugins' buildDecorations (editor/view-plugin.ts), the         *)
(* built-in plugins' reveal/hide decisions, the static PreviewRenderer     *)
(* (preview/renderer.ts and its asynchronous revision) and the             *)
(* playground's preview effect (apps/web/app/playground/page.tsx).         *)
(*                                                                         *)
(* Text is a sequence of one-character strings; offsets are 0-based and a  *)
(* range [from, to) of the document is SubSeq(text, from + 1, to).         *)
(* The syntax tree is the output of the external Lezer parser: every       *)
(* document of the model carries the tree that parser yields for it, as a  *)
(* sequence of nodes in tree.iterate (pre-order) order.                    *)
(***************************************************************************)
EXTENDS Integers, Sequences, FiniteSets, TLC

VARIABLES
    viewStatus,   \* "none" | "ready" | "threw": the draftlyViewPluginClass instance
    plugins,      \* this.plugins: the DraftlyPluginsFacet value, registration order
    doc,          \* view.state.doc and its syntax tree (an index into Docs)
    selection,    \* view.state.selection: [ranges, main]
    decorations,  \* this.decorations, the list handed to RangeSetBuilder
    calls,        \* plugins whose buildDecorations ran in the last pass, in order
    lastPass,     \* what the last constructor/update call did
    lastNodes,    \* argument of the last onNodesChange call
    onNodesChange, \* this.onNodesChange: whether the facet holds a callback
    hooks,        \* the plugin hooks draftly() and the constructor called for
                  \* this view, in call order
    revision,     \* which PreviewRenderer the build holds: "sync" | "async"
    activePlugins, \* the page's activePlugins, handed to preview()
    currentContent, \* the page's currentContent: the document shown, or -1
    mode,         \* the page's mode
    passes,       \* the preview passes the effect started, in start order
    output,       \* the page's output state: the html displayed, the pass
                  \* that set it and the newest pass started by then
    mermaidCounter, \* mermaid-plugin.ts: the module's mermaidCounter
    katexThrows,  \* the formulas for which katex.renderToString throws
    tableInput,   \* the table the user typed: its cells and how it is written
    tableText,    \* the text of the Table node in the document
    tablePhase,   \* "typed", "formatted" (auto-format ran) or "rendered"
    tableHtml,    \* TablePlugin.renderToHTML of the table: head and body cells
    codeInfo,     \* the tokens of a fenced code block's info string
    infoProps,    \* CodeBlockProperties parsed from it, once it is parsed
    infoPhase,    \* "typed", "parsed", "applied" or "threw"
    textMarks,    \* the text highlights whose matches were marked
    candidates,   \* html-plugin: inlineElements, as the pairing pushed them
    keptElements, \* html-plugin: filteredElements, once the filter ran
    blockInfo,    \* code-plugin: the tokens of the info string of a block
    blockLines,   \* the code lines of the block
    blockMarks,   \* the code-text-highlight marks buildDecorations pushed
    blockHtml,    \* the content renderToHTML gave each line
    enterText,    \* table-plugin: the document when Enter is pressed
    enterCursor,  \* state.selection.main.head at that moment
    enterTable,   \* the Table node of the document: [from, to]
    enterResult,  \* what the key press did: [kind, text, cursor]
    pageContents, \* playground: the contents state, a list of [id, title, content]
    pageCurrent,  \* playground: the currentContent state of the editor, or -1
    editorText,   \* the text the editor holds
    storage,      \* localStorage: the contents and the current index written
    saveTimer,    \* saveTimeoutRef: the pending callback, if any
    saveStatus,   \* "idle", "saving" or "saved"
    indicatorTimer, \* savedIndicatorTimeoutRef: whether its callback is pending
    lastChange,   \* per id, the last content passed to handleContentChange
    typed,        \* how many characters the user typed
    taskText,     \* list-plugin: a document of task list items
    taskCursor,   \* the cursor in it
    taskMarkers,  \* its TaskMarker nodes: [from, to]
    taskClicked,  \* the checkbox clicked and the document after the click
    styleMarker,  \* editor/utils: the marker of the style command
    styleOriginal, \* the document and the selection before the command ran
    styleText,    \* the document now
    styleSelection, \* the main selection now: [anchor, head]
    styleRuns     \* how many times the command ran

viewVars == <<viewStatus, plugins, doc, selection, decorations, calls, lastPass,
              lastNodes, onNodesChange, hooks>>

previewVars == <<revision, activePlugins, currentContent, mode, passes, output,
                 mermaidCounter, katexThrows>>

tableVars == <<tableInput, tableText, tablePhase, tableHtml>>

codeVars == <<codeInfo, infoProps, infoPhase, textMarks>>

filterVars == <<candidates, keptElements>>

highlightVars == <<blockInfo, blockLines, blockMarks, blockHtml>>

enterVars == <<enterText, enterCursor, enterTable, enterResult>>

saveVars == <<pageContents, pageCurrent, editorText, storage, saveTimer, saveStatus,
              indicatorTimer, lastChange, typed>>

taskVars == <<taskText, taskCursor, taskMarkers, taskClicked>>

styleVars == <<styleMarker, styleOriginal, styleText, styleSelection, styleRuns>>

unitVars == <<filterVars, highlightVars, enterVars, saveVars, taskVars, styleVars>>

\* what the steps of one unit leave alone
exceptFilter ==
    <<viewVars, previewVars, tableVars, codeVars, highlightVars, enterVars, saveVars, taskVars,
      styleVars>>

exceptHighlight ==
    <<viewVars, previewVars, tableVars, codeVars, filterVars, enterVars, saveVars, taskVars,
      styleVars>>

exceptEnter ==
    <<viewVars, previewVars, tableVars, codeVars, filterVars, highlightVars, saveVars, taskVars,
      styleVars>>

exceptTask ==
    <<viewVars, previewVars, tableVars, codeVars, filterVars, highlightVars, enterVars, saveVars,
      styleVars>>

exceptStyle ==
    <<viewVars, previewVars, tableVars, codeVars, filterVars, highlightVars, enterVars, saveVars,
      taskVars>>

exceptSave ==
    <<viewVars, previewVars, tableVars, codeVars, filterVars, highlightVars, enterVars, taskVars,
      styleVars>>

toolVars == <<tableVars, codeVars, unitVars>>

vars == <<viewVars, previewVars, toolVars>>

----------------------------------------------------------------------------
(* Bounds *)

MaxRanges == 2            \* selection ranges held at once
MaxSelLen == 1            \* length of a selection range
MaxFaults == 1            \* hooks that throw during one constructor/update call
MaxPushedBeforeThrow == 1 \* annotations a throwing plugin has pushed by then

----------------------------------------------------------------------------
(* Generic helpers *)

RECURSIVE Flatten(_)
Flatten(ss) == IF ss = <<>> THEN <<>> ELSE Head(ss) \o Flatten(Tail(ss))

Prefix(s, k) == SubSeq(s, 1, IF k < Len(s) THEN k ELSE Len(s))

Range(s) == {s[i] : i \in 1..Len(s)}

----------------------------------------------------------------------------
(* Documents and their syntax trees *)

Node(name, from, to, parent) ==
    [name |-> name, from |-> from, to |-> to, parent |-> parent,
     tagName |-> "", isClosing |-> FALSE, isSelfClosing |-> FALSE]

Tag(from, to, parent, tagName, isClosing, isSelfClosing) ==
    [name |-> "HTMLTag", from |-> from, to |-> to, parent |-> parent,
     tagName |-> tagName, isClosing |-> isClosing, isSelfClosing |-> isSelfClosing]

Line(from, to) == [from |-> from, to |-> to]

\* "# *a*"
DocHeading ==
    <<<<"#", " ", "*", "a", "*">>,
      <<<<0, 5>>>>,
      <<<<"Document", 0, 5, 0>>,
       <<"ATXHeading1", 0, 5, 1>>,
       <<"HeaderMark", 0, 1, 2>>,
       <<"Emphasis", 2, 5, 2>>,
       <<"EmphasisMark", 2, 3, 4>>,
       <<"EmphasisMark", 4, 5, 4>>>> >>

\* "<b>x</b>z"
DocHtml ==
    <<<<"<", "b", ">", "x", "<", "/", "b", ">", "z">>,
      <<<<0, 9>>>>,
      <<<<"Document", 0, 9, 0>>,
       <<"Paragraph", 0, 9, 1>>,
       <<"HTMLTag", 0, 3, 2, "b", FALSE, FALSE>>,
       <<"HTMLTag", 4, 8, 2, "b", TRUE, FALSE>>>> >>

\* "- [ ] t" / "z"
DocTask ==
    <<<<"-", " ", "[", " ", "]", " ", "t", "\n", "z">>,
      <<<<0, 7>>, <<8, 9>>>>,
      <<<<"Document", 0, 9, 0>>,
       <<"BulletList", 0, 7, 1>>,
       <<"ListItem", 0, 7, 2>>,
       <<"ListMark", 0, 1, 3>>,
       <<"Task", 2, 7, 3>>,
       <<"TaskMarker", 2, 5, 5>>,
       <<"Paragraph", 8, 9, 1>>>> >>

\* the fence character of a code block, which a string of this notation cannot hold
Backquote == "bq"

\* two fenced mermaid blocks (definitions "A" and "B") around the paragraph
\* "x<" and an empty line, parsed with MermaidPlugin's block parser: each
\* MermaidBlock holds its opening and closing MermaidBlockMark
DocMermaid ==
    <<<<Backquote, Backquote, Backquote, "m", "e", "r", "m", "a", "i", "d", "\n",
       "A", "\n", Backquote, Backquote, Backquote, "\n",
       "x", "<", "\n", "\n",
       Backquote, Backquote, Backquote, "m", "e", "r", "m", "a", "i", "d", "\n",
       "B", "\n", Backquote, Backquote, Backquote>>,
      <<<<0, 10>>, <<11, 12>>, <<13, 16>>, <<17, 19>>, <<20, 20>>,
       <<21, 31>>, <<32, 33>>, <<34, 37>>>>,
      <<<<"Document", 0, 37, 0>>,
       <<"MermaidBlock", 0, 16, 1>>,
       <<"MermaidBlockMark", 0, 10, 2>>,
       <<"MermaidBlockMark", 13, 16, 2>>,
       <<"Paragraph", 17, 19, 1>>,
       <<"MermaidBlock", 21, 37, 1>>,
       <<"MermaidBlockMark", 21, 31, 6>>,
       <<"MermaidBlockMark", 34, 37, 6>>>> >>

\* "$a$ $b$", parsed with MathPlugin's inline parser: each InlineMath holds
\* its opening and closing InlineMathMark
DocMath ==
    <<<<"$", "a", "$", " ", "$", "b", "$">>,
      <<<<0, 7>>>>,
      <<<<"Document", 0, 7, 0>>,
       <<"Paragraph", 0, 7, 1>>,
       <<"InlineMath", 0, 3, 2>>,
       <<"InlineMathMark", 0, 1, 3>>,
       <<"InlineMathMark", 2, 3, 3>>,
       <<"InlineMath", 4, 7, 2>>,
       <<"InlineMathMark", 4, 5, 6>>,
       <<"InlineMathMark", 6, 7, 6>>>> >>

\* "<b>x<i>y</i>z</b>": a paragraph of inline HTML, one HTMLTag node per tag
DocNested ==
    <<<<"<", "b", ">", "x", "<", "i", ">", "y", "<", "/", "i", ">", "z",
       "<", "/", "b", ">">>,
      <<<<0, 17>>>>,
      <<<<"Document", 0, 17, 0>>,
       <<"Paragraph", 0, 17, 1>>,
       <<"HTMLTag", 0, 3, 2, "b", FALSE, FALSE>>,
       <<"HTMLTag", 4, 7, 2, "i", FALSE, FALSE>>,
       <<"HTMLTag", 8, 12, 2, "i", TRUE, FALSE>>,
       <<"HTMLTag", 13, 17, 2, "b", TRUE, FALSE>>>> >>

\* "<b>unterminated"
DocOrphan ==
    <<<<"<", "b", ">", "u", "n", "t", "e", "r", "m", "i", "n", "a", "t", "e", "d">>,
      <<<<0, 15>>>>,
      <<<<"Document", 0, 15, 0>>,
       <<"Paragraph", 0, 15, 1>>,
       <<"HTMLTag", 0, 3, 2, "b", FALSE, FALSE>>>> >>

\* "<b>x" / "</b><i>y</i>": one paragraph of two lines; the close of <b> is
\* on the line after it
DocSplit ==
    <<<<"<", "b", ">", "x", "\n", "<", "/", "b", ">", "<", "i", ">", "y",
       "<", "/", "i", ">">>,
      <<<<0, 4>>, <<5, 17>>>>,
      <<<<"Document", 0, 17, 0>>,
       <<"Paragraph", 0, 17, 1>>,
       <<"HTMLTag", 0, 3, 2, "b", FALSE, FALSE>>,
       <<"HTMLTag", 5, 9, 2, "b", TRUE, FALSE>>,
       <<"HTMLTag", 9, 12, 2, "i", FALSE, FALSE>>,
       <<"HTMLTag", 13, 17, 2, "i", TRUE, FALSE>>>> >>

\* "<i>a</i><u>b</u>c": two elements that touch
DocSiblings ==
    <<<<"<", "i", ">", "a", "<", "/", "i", ">", "<", "u", ">", "b",
       "<", "/", "u", ">", "c">>,
      <<<<0, 17>>>>,
      <<<<"Document", 0, 17, 0>>,
       <<"Paragraph", 0, 17, 1>>,
       <<"HTMLTag", 0, 3, 2, "i", FALSE, FALSE>>,
       <<"HTMLTag", 4, 8, 2, "i", TRUE, FALSE>>,
       <<"HTMLTag", 8, 11, 2, "u", FALSE, FALSE>>,
       <<"HTMLTag", 12, 16, 2, "u", TRUE, FALSE>>>> >>

\* "<i><b>x</i>z": an opening tag without a close, between a pair
DocEnclosed ==
    <<<<"<", "i", ">", "<", "b", ">", "x", "<", "/", "i", ">", "z">>,
      <<<<0, 12>>>>,
      <<<<"Document", 0, 12, 0>>,
       <<"Paragraph", 0, 12, 1>>,
       <<"HTMLTag", 0, 3, 2, "i", FALSE, FALSE>>,
       <<"HTMLTag", 3, 6, 2, "b", FALSE, FALSE>>,
       <<"HTMLTag", 7, 11, 2, "i", TRUE, FALSE>>>> >>

\* a document as the parser leaves it, from its text, the bounds of its lines
\* and the rows of its syntax tree in document order: a row of four is a node
\* <<name, from, to, parent>>, a row of seven an HTMLTag with its tag name and
\* its closing and self-closing marks
Document(src) ==
    [text  |-> src[1],
     lines |-> [i \in 1..Len(src[2]) |-> Line(src[2][i][1], src[2][i][2])],
     nodes |-> [i \in 1..Len(src[3]) |->
                  IF Len(src[3][i]) = 4
                  THEN Node(src[3][i][1], src[3][i][2], src[3][i][3], src[3][i][4])
                  ELSE Tag(src[3][i][2], src[3][i][3], src[3][i][4], src[3][i][5],
                           src[3][i][6], src[3][i][7])]]

Documents(srcs) == [d \in 1..Len(srcs) |-> Document(srcs[d])]

Docs == Documents(<<DocHeading, DocHtml, DocTask, DocMermaid, DocMath,
                    DocNested, DocOrphan, DocSplit, DocSiblings, DocEnclosed>>)

\* the documents of inline HTML
HtmlDocs == {2, 6, 7, 8, 9, 10}

\* the documents the playground's preview is given
PreviewDocs == 1..5

\* documents whose tree needs no parser extension of a plugin: the ones the
\* editor of the model, which registers no MermaidPlugin, can hold
EditorDocs == {1, 2, 3}

DocLen(d) == Len(Docs[d].text)

sliceDoc(d, from, to) == SubSeq(Docs[d].text, from + 1, to)

\* view.state.doc.lineAt(pos)
lineAt(d, pos) ==
    LET ls == Docs[d].lines
        i  == CHOOSE k \in 1..Len(ls) :
                  /\ ls[k].from <= pos
                  /\ (pos <= ls[k].to \/ k = Len(ls))
                  /\ \A j \in 1..(k - 1) : ls[j].to < pos
    IN ls[i]

\* node.getChildren(name): indices of the direct children with that name
getChildren(d, n, name) ==
    LET ns == Docs[d].nodes
    IN SelectSeq([i \in 1..Len(ns) |-> i],
                 LAMBDA i : ns[i].parent = n /\ ns[i].name = name)

----------------------------------------------------------------------------
(* Selection (view.state.selection) and the two overlap predicates *)

SelRange(from, to) == [from |-> from, to |-> to]

\* ranges a transaction can select in document d
SelRanges(d) ==
    {r \in [from : 0..DocLen(d), to : 0..DocLen(d)] :
        r.from <= r.to /\ r.to - r.from <= MaxSelLen}

\* the positions a cursor (an empty range) can be at
Cursors(d) == {r \in [from : 0..DocLen(d), to : 0..DocLen(d)] : r.from = r.to}

SingleSelection(r) == [ranges |-> <<r>>, main |-> 1]

\* editor/utils.ts cursorInRange: the main range only
cursorInRange(sel, from, to) ==
    LET main == sel.ranges[sel.main]
    IN main.from <= to /\ main.to >= from

\* editor/utils.ts selectionOverlapsRange: any range
selectionOverlapsRange(sel, from, to) ==
    \E i \in 1..Len(sel.ranges) :
        sel.ranges[i].from <= to /\ sel.ranges[i].to >= from

----------------------------------------------------------------------------
(* Array.prototype.sort with a comparator on a key pair; the sort is       *)
(* stable: elements that compare equal keep their original order.  Each    *)
(* element is inserted, from the last to the first, before the first       *)
(* already sorted element that does not compare before it.                 *)

LexLess(a, b) == a[1] < b[1] \/ (a[1] = b[1] /\ a[2] < b[2])

Keyed(s, key) == [k \in 1..Len(s) |-> [key |-> key[k], val |-> s[k]]]

RECURSIVE InsertAfterEqual(_, _)
InsertAfterEqual(e, sorted) ==
    IF sorted = <<>> \/ LexLess(e.key, Head(sorted).key) THEN <<e>> \o sorted
    ELSE <<Head(sorted)>> \o InsertAfterEqual(e, Tail(sorted))

RECURSIVE InsertBeforeEqual(_, _)
InsertBeforeEqual(e, sorted) ==
    IF sorted = <<>> \/ ~LexLess(Head(sorted).key, e.key) THEN <<e>> \o sorted
    ELSE <<Head(sorted)>> \o InsertBeforeEqual(e, Tail(sorted))

RECURSIVE SortReversedTies(_)
SortReversedTies(es) ==
    IF es = <<>> THEN <<>> ELSE InsertAfterEqual(Head(es), SortReversedTies(Tail(es)))

RECURSIVE SortKeyed(_)
SortKeyed(es) ==
    IF es = <<>> THEN <<>> ELSE InsertBeforeEqual(Head(es), SortKeyed(Tail(es)))

Vals(es) == [k \in 1..Len(es) |-> es[k].val]

StableSortReversedTies(s, key) == Vals(SortReversedTies(Keyed(s, key)))

StableSort(s, key) == Vals(SortKeyed(Keyed(s, key)))

----------------------------------------------------------------------------
(* Decorations.  startSide is CodeMirror's: line decorations sort before   *)
(* replace decorations, which sort before (non-inclusive) marks; the       *)
(* numbers keep that order.                                                *)

SideLine == 0 - 2
SideMark == 5
SideReplace == SideMark - 1

Deco(kind, from, to, cls, by) ==
    [kind |-> kind, from |-> from, to |-> to, cls |-> cls, by |-> by,
     startSide |-> CASE kind = "line" -> SideLine
                     [] kind = "replace" -> SideReplace
                     [] OTHER -> SideMark]

LineDeco(at, cls, by) == Deco("line", at, at, cls, by)
MarkDeco(from, to, cls, by) == Deco("mark", from, to, cls, by)
ReplaceDeco(from, to, cls, by) == Deco("replace", from, to, cls, by)

\* the decorations a plugin pushes, node by node in tree.iterate order
PerNode(d, f) == Flatten([i \in 1..Len(Docs[d].nodes) |-> f[i]])

----------------------------------------------------------------------------
(* HeadingPlugin.buildDecorations *)

HEADING_TYPES == {"ATXHeading1", "ATXHeading2", "ATXHeading3",
                  "ATXHeading4", "ATXHeading5", "ATXHeading6"}

HeadingDecorations(d, sel) ==
    LET ns == Docs[d].nodes
        one(i) ==
            IF ns[i].name \notin HEADING_TYPES THEN <<>>
            ELSE LET from == ns[i].from
                     to == ns[i].to
                     cursorInNode == selectionOverlapsRange(sel, from, to)
                     marks == getChildren(d, i, "HeaderMark")
                 IN <<LineDeco(lineAt(d, from).from, "cm-draftly-line-h", "heading"),
                      MarkDeco(from, to + 1, "cm-draftly-h", "heading")>>
                    \o (IF ~cursorInNode /\ marks # <<>>
                        THEN <<MarkDeco(ns[marks[1]].from, ns[marks[1]].to + 1,
                                        "cm-draftly-heading-mark", "heading")>>
                        ELSE <<>>)
    IN PerNode(d, [i \in 1..Len(ns) |-> one(i)])

----------------------------------------------------------------------------
(* InlinePlugin.buildDecorations *)

INLINE_TYPES == {"Emphasis", "StrongEmphasis", "Strikethrough",
                 "Subscript", "Superscript", "Highlight"}

getMarkerNames(nodeType) ==
    CASE nodeType \in {"Emphasis", "StrongEmphasis"} -> "EmphasisMark"
      [] nodeType = "Strikethrough" -> "StrikethroughMark"
      [] nodeType = "Subscript" -> "SubscriptMark"
      [] nodeType = "Superscript" -> "SuperscriptMark"
      [] nodeType = "Highlight" -> "HighlightMark"
      [] OTHER -> "none"

InlineDecorations(d, sel) ==
    LET ns == Docs[d].nodes
        one(i) ==
            IF ns[i].name \notin INLINE_TYPES THEN <<>>
            ELSE LET from == ns[i].from
                     to == ns[i].to
                     cursorInNode == selectionOverlapsRange(sel, from, to)
                     marks == getChildren(d, i, getMarkerNames(ns[i].name))
                 IN <<MarkDeco(from, to, "cm-draftly-inline", "inline")>>
                    \o (IF ~cursorInNode
                        THEN [k \in 1..Len(marks) |->
                                 ReplaceDeco(ns[marks[k]].from, ns[marks[k]].to,
                                             "inline-mark", "inline")]
                        ELSE <<>>)
    IN PerNode(d, [i \in 1..Len(ns) |-> one(i)])

----------------------------------------------------------------------------
(* ListPlugin.buildDecorations *)

hasTaskChild(d, i) == getChildren(d, i, "Task") # <<>>

\* decorateListItem: the line decoration of a list item
decorateListItem(d, i, line) ==
    <<LineDeco(line.from,
               IF hasTaskChild(d, i) THEN "cm-draftly-task-line"
               ELSE IF Docs[d].nodes[Docs[d].nodes[i].parent].name = "OrderedList"
                    THEN "cm-draftly-list-line-ol"
                    ELSE "cm-draftly-list-line-ul",
               "list")>>

\* the name of the grandparent of node i: the list of a list mark
listTypeOf(ns, i) ==
    IF ns[i].parent = 0 \/ ns[ns[i].parent].parent = 0 THEN "none"
    ELSE ns[ns[ns[i].parent].parent].name

\* decorateListMark: indent, marker and content marks
decorateListMark(node, line, active, listType) ==
    (IF node.from > line.from
     THEN <<MarkDeco(line.from, node.from, "cm-draftly-list-indent" \o active, "list")>>
     ELSE <<>>)
    \o <<MarkDeco(node.from, node.to + 1,
                  (IF listType = "OrderedList"
                   THEN "cm-draftly-list-mark-ol"
                   ELSE "cm-draftly-list-mark-ul") \o active,
                  "list")>>
    \o (IF node.to + 1 < line.to
        THEN <<MarkDeco(node.to + 1, line.to, "cm-draftly-list-content", "list")>>
        ELSE <<>>)

\* decorateTaskMarker: the raw marker, or the checkbox widget in its place
decorateTaskMarker(node, cursorInLine) ==
    IF cursorInLine
    THEN <<MarkDeco(node.from, node.to, "cm-draftly-task-marker", "list")>>
    ELSE <<ReplaceDeco(node.from, node.to, "TaskCheckboxWidget", "list")>>

\* the body of tree.iterate's enter for node i, whose line is line
decorateListNode(d, i, node, line, cursorInLine) ==
    CASE node.name = "ListItem" -> decorateListItem(d, i, line)
      [] node.name = "ListMark" ->
             decorateListMark(node, line,
                              IF cursorInLine THEN " cm-draftly-active" ELSE "",
                              listTypeOf(Docs[d].nodes, i))
      [] node.name = "TaskMarker" -> decorateTaskMarker(node, cursorInLine)
      [] OTHER -> <<>>

listLineOf(d, sel, i, line) ==
    decorateListNode(d, i, Docs[d].nodes[i], line, cursorInRange(sel, line.from, line.to))

ListDecorations(d, sel) ==
    PerNode(d, [i \in 1..Len(Docs[d].nodes) |->
                   listLineOf(d, sel, i, lineAt(d, Docs[d].nodes[i].from))])

----------------------------------------------------------------------------
(* HTMLPlugin.buildDecorations: tag pairing, overlap filter, reveal/hide *)

\* the HTMLTag nodes, in document order (htmlTags)
htmlTags(d) == SelectSeq(Docs[d].nodes, LAMBDA n : n.name = "HTMLTag")

\* a search that takes the first closing tag of the line, whatever its name
FindCloseAnyName(tags, i, j, depth, lineTo) ==
    LET closes == {k \in j..Len(tags) : tags[k].isClosing /\ tags[k].from <= lineTo}
    IN IF closes = {} THEN 0 ELSE CHOOSE k \in closes : \A m \in closes : k <= m

\* a filter that keeps every candidate
keepAll(elems, lastEnd, kept) == kept \o elems

\* the inner loop over j: index of the matching closing tag, 0 for null
RECURSIVE FindClose(_, _, _, _, _)
FindClose(tags, i, j, depth, lineTo) ==
    IF j > Len(tags) THEN 0
    ELSE IF tags[j].from > lineTo THEN 0
    ELSE IF tags[j].tagName = tags[i].tagName
         THEN IF tags[j].isClosing
              THEN IF depth - 1 = 0 THEN j
                   ELSE FindClose(tags, i, j + 1, depth - 1, lineTo)
              ELSE IF ~tags[j].isSelfClosing
                   THEN FindClose(tags, i, j + 1, depth + 1, lineTo)
                   ELSE FindClose(tags, i, j + 1, depth, lineTo)
         ELSE FindClose(tags, i, j + 1, depth, lineTo)

\* the outer loop over i: [used |-> usedTags, elems |-> inlineElements]
RECURSIVE PairTags(_, _, _, _, _)
PairTags(d, tags, i, used, elems) ==
    IF i > Len(tags) THEN [used |-> used, elems |-> elems]
    ELSE IF i \in used \/ tags[i].isClosing
         THEN PairTags(d, tags, i + 1, used, elems)
    ELSE IF tags[i].isSelfClosing
         THEN PairTags(d, tags, i + 1, used \cup {i},
                       Append(elems, [from |-> tags[i].from, to |-> tags[i].to]))
    ELSE LET close == FindClose(tags, i, i + 1, 1, lineAt(d, tags[i].from).to)
         IN IF close # 0
            THEN PairTags(d, tags, i + 1, used \cup (i..close),
                          Append(elems, [from |-> tags[i].from, to |-> tags[close].to]))
            ELSE PairTags(d, tags, i + 1, used, elems)

\* keep an element only when it starts at or after the end of the last kept
RECURSIVE FilterOverlapping(_, _, _)
FilterOverlapping(elems, lastEnd, kept) ==
    IF elems = <<>> THEN kept
    ELSE IF Head(elems).from >= lastEnd
         THEN FilterOverlapping(Tail(elems), Head(elems).to, Append(kept, Head(elems)))
         ELSE FilterOverlapping(Tail(elems), lastEnd, kept)

inlineElements(d) == PairTags(d, htmlTags(d), 1, {}, <<>>)

\* inlineElements.sort((a, b) => a.from - b.from)
sortByFrom(elems) == StableSort(elems, [k \in 1..Len(elems) |-> <<elems[k].from, 0>>])

filteredElements(d) == FilterOverlapping(sortByFrom(inlineElements(d).elems), 0 - 1, <<>>)

\* the reveal test of an inline element: ctx.cursorInRange
HtmlElementRevealed(sel, elem) == cursorInRange(sel, elem.from, elem.to)

tagMarks(inside) ==
    [k \in 1..Len(inside) |->
        MarkDeco(inside[k].from, inside[k].to, "cm-draftly-html-tag", "html")]

\* one filtered element: its tags styled as source, or the preview widget
htmlElementDecorations(sel, tags, elem) ==
    IF HtmlElementRevealed(sel, elem)
    THEN tagMarks(SelectSeq(tags, LAMBDA t : t.from >= elem.from /\ t.to <= elem.to))
    ELSE <<ReplaceDeco(elem.from, elem.to, "InlineHTMLPreviewWidget", "html")>>

\* a pass that leaves the tags no element used without decoration
noOrphanDecorations(tags, used, i) == <<>>

\* a tag no element used is styled as source
htmlOrphanDecorations(tags, used, i) ==
    IF i \notin used
    THEN <<MarkDeco(tags[i].from, tags[i].to, "cm-draftly-html-tag", "html")>>
    ELSE <<>>

htmlDecorationsOf(sel, tags, elems, used) ==
    Flatten([e \in 1..Len(elems) |-> htmlElementDecorations(sel, tags, elems[e])])
    \o Flatten([i \in 1..Len(tags) |-> htmlOrphanDecorations(tags, used, i)])

HtmlDecorations(d, sel) ==
    htmlDecorationsOf(sel, htmlTags(d), filteredElements(d), inlineElements(d).used)

----------------------------------------------------------------------------
(* The plugin registry *)

decorationPriority(p) ==
    CASE p = "paragraph" -> 100   \* DraftlyPlugin default
      [] p = "custom" -> 5        \* an application's own plugin
      [] p = "heading" -> 10
      [] p = "inline" -> 20
      [] p = "list" -> 20
      [] p = "html" -> 30
      [] p = "mermaid" -> 25
      [] p = "math" -> 25

\* what plugin p pushes when its buildDecorations runs to completion
PluginDecorations(p, d, sel) ==
    CASE p = "heading" -> HeadingDecorations(d, sel)
      [] p = "inline" -> InlineDecorations(d, sel)
      [] p = "list" -> ListDecorations(d, sel)
      [] p = "html" -> HtmlDecorations(d, sel)
      [] p = "custom" -> <<LineDeco(0, "custom-line", "custom")>>
      [] OTHER -> <<>>          \* DraftlyPlugin.buildDecorations does nothing

\* essentialPlugins, in registration order
essentialPlugins == <<"paragraph", "heading", "inline", "list", "html">>

\* draftly(config): allPlugins = [...defaultPlugins, ...plugins], with or
\* without an application plugin and an onNodesChange callback
Configs == {[plugins |-> essentialPlugins, onNodesChange |-> FALSE],
            [plugins |-> essentialPlugins \o <<"custom">>, onNodesChange |-> TRUE]}

\* plugins whose buildDecorations is overridden, and can therefore throw
BuildsDecorations(p) == p \in {"heading", "inline", "list", "html", "custom"}

\* plugins whose lifecycle hooks are application code
OverridesHooks(p) == p = "custom"

----------------------------------------------------------------------------
(* Exceptions.  A fault names a hook that throws in the current call; a    *)
(* buildDecorations that throws does so when it has pushed `pushed`        *)
(* annotations, or at the end of its walk if it has fewer to push.         *)

Fault(hook, p, pushed) == [hook |-> hook, plugin |-> p, pushed |-> pushed]

FaultItems(plist, hasCallback) ==
    {Fault("buildDecorations", p, MaxPushedBeforeThrow) :
        p \in {q \in Range(plist) : BuildsDecorations(q)}}
    \cup {Fault(h, p, 0) :
        h \in {"onViewReady", "onViewUpdate"}, p \in {q \in Range(plist) : OverridesHooks(q)}}
    \cup (IF hasCallback THEN {Fault("onNodesChange", "app", 0)} ELSE {})

\* sets of at most n of the items
RECURSIVE SetsUpTo(_, _)
SetsUpTo(items, n) ==
    IF n = 0 THEN {{}}
    ELSE LET smaller == SetsUpTo(items, n - 1)
         IN smaller \cup {S \cup {f} : S \in smaller, f \in items}

FaultSets(plist, hasCallback) ==
    {F \in SetsUpTo(FaultItems(plist, hasCallback), MaxFaults) :
        \A f, g \in F : (f.hook = g.hook /\ f.plugin = g.plugin) => f = g}

Throws(F, hook, p) == \E f \in F : f.hook = hook /\ f.plugin = p

PushedBeforeThrow(F, p) ==
    IF Throws(F, "buildDecorations", p)
    THEN (CHOOSE f \in F : f.hook = "buildDecorations" /\ f.plugin = p).pushed
    ELSE 0

----------------------------------------------------------------------------
(* buildDecorations(view, plugins) of editor/view-plugin.ts *)

\* the plugins in registration order, the priorities ignored
sortedPluginsUnsorted(plist) == plist

\* [...plugins].sort((a, b) => a.decorationPriority - b.decorationPriority)
sortedPlugins(plist) ==
    StableSort(plist, [k \in 1..Len(plist) |-> <<decorationPriority(plist[k]), 0>>])

\* one plugin.buildDecorations(ctx) call: what reaches ctx.decorations
\* before the call returns or throws
PushedOf(all, throws, pushed) == IF throws THEN Prefix(all, pushed) ELSE all

Pushed(p, d, sel, F) ==
    PushedOf(PluginDecorations(p, d, sel), Throws(F, "buildDecorations", p),
             PushedBeforeThrow(F, p))

\* a loop whose try/catch is around the whole loop instead of one call
RECURSIVE InvokePluginsAbortOnThrow(_, _, _, _, _)
InvokePluginsAbortOnThrow(ps, d, sel, F, acc) ==
    IF ps = <<>> THEN acc
    ELSE InvokePluginsAbortOnThrow(
             IF Throws(F, "buildDecorations", Head(ps)) THEN <<>> ELSE Tail(ps),
             d, sel, F,
             [decorations |-> acc.decorations \o Pushed(Head(ps), d, sel, F),
              calls |-> Append(acc.calls, Head(ps))])

\* for (const plugin of sortedPlugins) { try { plugin.buildDecorations(ctx) } catch {} }
RECURSIVE InvokePlugins(_, _, _, _, _)
InvokePlugins(ps, d, sel, F, acc) ==
    IF ps = <<>> THEN acc
    ELSE InvokePlugins(Tail(ps), d, sel, F,
             [decorations |-> acc.decorations \o Pushed(Head(ps), d, sel, F),
              calls |-> Append(acc.calls, Head(ps))])

\* each pushed annotation remembers its index in the shared array (ord)
Numbered(ds) ==
    [k \in 1..Len(ds) |->
        [kind |-> ds[k].kind, from |-> ds[k].from, to |-> ds[k].to, cls |-> ds[k].cls,
         by |-> ds[k].by, startSide |-> ds[k].startSide, ord |-> k]]

\* a sort by the same key that reverses the annotations of equal key
sortDecorationsUnstable(ds) ==
    StableSortReversedTies(ds, [k \in 1..Len(ds) |-> <<ds[k].from, ds[k].startSide>>])

\* decorations.sort((a, b) => a.from - b.from || a.value.startSide - b.value.startSide)
sortDecorations(ds) ==
    StableSort(ds, [k \in 1..Len(ds) |-> <<ds[k].from, ds[k].startSide>>])

\* the sort and the RangeSetBuilder loop over what the plugins pushed
finishDecorations(run) ==
    [decorations |-> sortDecorations(Numbered(run.decorations)), calls |-> run.calls]

buildDecorations(d, sel, plist, F) ==
    finishDecorations(InvokePlugins(sortedPlugins(plist), d, sel, F,
                                    [decorations |-> <<>>, calls |-> <<>>]))

\* buildNodes(view): isSelected of every node, in tree order
buildNodes(d, sel) ==
    [i \in 1..Len(Docs[d].nodes) |->
        selectionOverlapsRange(sel, Docs[d].nodes[i].from, Docs[d].nodes[i].to)]

----------------------------------------------------------------------------
(* draftlyViewPluginClass *)

NoPass == [kind |-> "none", triggered |-> FALSE, faults |-> {}, threwIn |-> "none"]

ViewInit ==
    /\ viewStatus = "none"
    /\ plugins = <<>>
    /\ onNodesChange = FALSE
    /\ doc = 1
    /\ selection = SingleSelection(SelRange(0, 0))
    /\ decorations = <<>>
    /\ calls = <<>>
    /\ lastPass = NoPass
    /\ lastNodes = <<>>
    /\ hooks = <<>>

Hook(name, p) == [hook |-> name, plugin |-> p]

\* draftly(config): for (const plugin of allPlugins) plugin.onRegister(...)
registerHooks(plist) == [k \in 1..Len(plist) |-> Hook("onRegister", plist[k])]

\* for (const plugin of this.plugins) plugin.onViewReady(view): the calls
\* made until one throws
readyHooks(plist, F) ==
    LET idx == {k \in 1..Len(plist) : Throws(F, "onViewReady", plist[k])}
        last == IF idx = {} THEN Len(plist) ELSE CHOOSE k \in idx : \A j \in idx : k <= j
    IN [k \in 1..last |-> Hook("onViewReady", plist[k])]

\* the hooks of draftly() and of the constructor, in the order of the code:
\* the decorations are built before the plugins are told the view is ready
constructorHooks(plist, called, F) ==
    registerHooks(plist)
    \o [k \in 1..Len(called) |-> Hook("buildDecorations", called[k])]
    \o readyHooks(plist, F)

\* first plugin, in registration order, whose hook throws; "none" if none
FirstThrower(plist, F, hook) ==
    LET idx == {k \in 1..Len(plist) : Throws(F, hook, plist[k])}
    IN IF idx = {} THEN "none"
       ELSE plist[CHOOSE k \in idx : \A j \in idx : k <= j]

\* constructor(view)
Construct(cfg, d, r, F) ==
    /\ viewStatus \in {"none", "threw"}
    /\ LET sel == SingleSelection(r)
           built == buildDecorations(d, sel, cfg.plugins, F)
           readyThrower == FirstThrower(cfg.plugins, F, "onViewReady")
           callbackThrows == cfg.onNodesChange /\ Throws(F, "onNodesChange", "app")
           threwIn == IF readyThrower # "none" THEN "onViewReady"
                      ELSE IF callbackThrows THEN "onNodesChange"
                      ELSE "none"
       IN /\ plugins' = cfg.plugins
          /\ onNodesChange' = cfg.onNodesChange
          /\ doc' = d
          /\ selection' = sel
          /\ decorations' = built.decorations
          /\ calls' = built.calls
          /\ hooks' = constructorHooks(cfg.plugins, calls', F)
          /\ lastNodes' = IF readyThrower = "none" /\ cfg.onNodesChange
                          THEN buildNodes(d, sel) ELSE <<>>
          /\ viewStatus' = IF threwIn = "none" THEN "ready" ELSE "threw"
          /\ lastPass' = [kind |-> "construct", triggered |-> TRUE, faults |-> F,
                          threwIn |-> threwIn]
    /\ UNCHANGED <<previewVars, toolVars>>

\* update(update): d2 and sel2 are the state after the transaction, and
\* triggered is update.docChanged || update.selectionSet || update.viewportChanged
Update(d2, sel2, triggered, F) ==
    /\ viewStatus = "ready"
    /\ LET updateThrower == FirstThrower(plugins, F, "onViewUpdate")
           rebuilt == triggered /\ updateThrower = "none"
           built == buildDecorations(d2, sel2, plugins, F)
           callbackThrows == rebuilt /\ onNodesChange /\ Throws(F, "onNodesChange", "app")
           threwIn == IF updateThrower # "none" THEN "onViewUpdate"
                      ELSE IF callbackThrows THEN "onNodesChange"
                      ELSE "none"
       IN /\ doc' = d2
          /\ selection' = sel2
          /\ decorations' = IF rebuilt THEN built.decorations ELSE decorations
          /\ calls' = IF rebuilt THEN built.calls ELSE calls
          /\ lastNodes' = IF rebuilt /\ onNodesChange THEN buildNodes(d2, sel2) ELSE lastNodes
          /\ viewStatus' = IF threwIn = "none" THEN "ready" ELSE "threw"
          /\ lastPass' = [kind |-> "update", triggered |-> triggered, faults |-> F,
                          threwIn |-> threwIn]
          /\ UNCHANGED <<plugins, onNodesChange, hooks>>
    /\ UNCHANGED <<previewVars, toolVars>>

\* a transaction that selects one range
SetSelection(r, F) ==
    /\ SingleSelection(r) # selection
    /\ Update(doc, SingleSelection(r), TRUE, F)

\* a transaction that adds a range to the selection; the new range becomes
\* the main one and the ranges stay sorted and disjoint
AddSelectionRange(r, F) ==
    /\ Len(selection.ranges) < MaxRanges
    /\ \A i \in 1..Len(selection.ranges) :
           selection.ranges[i].to < r.from \/ r.to < selection.ranges[i].from
    /\ LET before == SelectSeq(selection.ranges, LAMBDA x : x.to < r.from)
           after == SelectSeq(selection.ranges, LAMBDA x : r.to < x.from)
       IN Update(doc, [ranges |-> before \o <<r>> \o after, main |-> Len(before) + 1], TRUE, F)

\* a transaction that replaces the document; the selection collapses to a
\* cursor at the start or the end of the new text
ChangeDoc(d2, atEnd, F) ==
    /\ d2 # doc
    /\ Update(d2, SingleSelection(IF atEnd THEN SelRange(DocLen(d2), DocLen(d2))
                                  ELSE SelRange(0, 0)), TRUE, F)

\* the viewport changed and nothing else
ChangeViewport(F) == Update(doc, selection, TRUE, F)

\* an update with no document, selection or viewport change (focus, geometry)
OtherUpdate(F) == Update(doc, selection, FALSE, F)

NoFault == {}

\* CodeMirror's default, one selection range: a cursor that moves, and
\* hooks that may throw
ViewNext ==
    \/ \E cfg \in Configs, d \in EditorDocs :
           \E F \in FaultSets(cfg.plugins, cfg.onNodesChange) :
               Construct(cfg, d, SelRange(0, 0), F)
    \/ \E F \in FaultSets(plugins, onNodesChange), r \in Cursors(doc) : SetSelection(r, F)
    \/ \E F \in FaultSets(plugins, onNodesChange), d2 \in EditorDocs, atEnd \in BOOLEAN :
           ChangeDoc(d2, atEnd, F)
    \/ \E F \in FaultSets(plugins, onNodesChange) : ChangeViewport(F)
    \/ \E F \in FaultSets(plugins, onNodesChange) : OtherUpdate(F)

\* an editor that holds inline HTML: the cursor moves and the text changes
HtmlNext ==
    \/ \E cfg \in Configs, d \in HtmlDocs : Construct(cfg, d, SelRange(0, 0), NoFault)
    \/ \E r \in Cursors(doc) : SetSelection(r, NoFault)
    \/ \E d2 \in HtmlDocs, atEnd \in BOOLEAN : ChangeDoc(d2, atEnd, NoFault)

\* EditorState.allowMultipleSelections on (the playground's basicSetup):
\* transactions may add ranges
MultiNext ==
    \/ \E cfg \in Configs, d \in EditorDocs : Construct(cfg, d, SelRange(0, 0), NoFault)
    \/ \E r \in SelRanges(doc) : SetSelection(r, NoFault)
    \/ \E r \in SelRanges(doc) : AddSelectionRange(r, NoFault)
    \/ \E d2 \in EditorDocs, atEnd \in BOOLEAN : ChangeDoc(d2, atEnd, NoFault)

----------------------------------------------------------------------------
(* Static rendering: HTML as a sequence of fragments *)

\* One fragment of an HTML string: s is its text; at (the source offset it
\* stands for), node (the node whose rendering produced it) and by (the
\* plugin, or "default", "leaf", "gap") record where it came from.
Token(s, at, node, by) == [s |-> s, at |-> at, node |-> node, by |-> by]

Strings(html) == [k \in 1..Len(html) |-> html[k].s]

escapeChar(c) ==
    CASE c = "&" -> "&amp;"
      [] c = "<" -> "&lt;"
      [] c = ">" -> "&gt;"
      [] c = "\"" -> "&quot;"
      [] c = "'" -> "&#39;"
      [] OTHER -> c

\* preview/default-renderers.ts escapeHtml
escapeHtml(text) == [k \in 1..Len(text) |-> escapeChar(text[k])]

\* the characters text, which start at offset from, as fragments
TextTokens(text, from, node, by) ==
    [k \in 1..Len(text) |-> Token(text[k], from + k - 1, node, by)]

\* node.firstChild / nextSibling: the children of node n, in document order
childNodes(d, n) ==
    SelectSeq([i \in 1..Len(Docs[d].nodes) |-> i], LAMBDA i : Docs[d].nodes[i].parent = n)

Null == [handled |-> FALSE, html |-> <<>>]

Html(x) == [handled |-> TRUE, html |-> x]

Wrap(open, children, close, n, from, to, by) ==
    Html(<<Token(open, from, n, by)>> \o children \o <<Token(close, to, n, by)>>)

\* the outcome of renderMermaid: it resolves to {svg, error} and never rejects
MermaidOutcomes == {"svg", "error"}

\* the svg of mermaid.render(id, definition) with id = draftly-mermaid-<counter>:
\* the engine renders the diagram into an svg element that carries the id
\* it was given
svgOf(counter) == "<svg id=\"draftly-mermaid-" \o ToString(counter) \o "\">"

\* what renderMermaid resolves to when the call that took id counter ends
\* as outcome: the svg, or "error" for {svg: "", error}
renderMermaid(outcome, counter) == IF outcome = "error" THEN "error" ELSE svgOf(counter)

\* a renderToHTML that does not look at the error of the result
mermaidHtmlIgnoringError(outcome) ==
    "<div class=\"cm-draftly-mermaid-rendered\">" \o outcome \o "</div>"

\* MermaidPlugin.renderToHTML's string for what renderMermaid resolved to
mermaidHtml(outcome) ==
    IF outcome = "error"
    THEN "<div class=\"cm-draftly-mermaid-error\">[Mermaid Error]</div>"
    ELSE "<div class=\"cm-draftly-mermaid-rendered\">" \o outcome \o "</div>"

\* renderMath(latex, displayMode): {html, error: null}, or {html: "", error}
\* when katex.renderToString throws
renderMath(latex) ==
    IF latex \in katexThrows THEN [html |-> "", error |-> "thrown"]
    ELSE [html |-> "<span class=\"katex\">", error |-> "null"]

\* MathPlugin.renderToHTML's string for an InlineMath node with source content
mathHtml(content) ==
    IF renderMath(SubSeq(content, 2, Len(content) - 1)).error # "null"
    THEN "<span class=\"cm-draftly-math-error\">[Math Error]</span>"
    ELSE "<span class=\"cm-draftly-math-rendered cm-draftly-math-rendered-inline\">"
             \o renderMath(SubSeq(content, 2, Len(content) - 1)).html \o "</span>"

\* plugin.renderToHTML(node, children, ctx) of plugin p for node n; outcome is
\* what the plugin's deferred call resolved to, where it makes one
renderToHTML(p, d, n, children, outcome) ==
    LET node == Docs[d].nodes[n]
        name == node.name
    IN CASE p = "paragraph" ->
               IF name # "Paragraph" THEN Null
               ELSE Wrap("<p class=\"cm-draftly-paragraph\">", children, "</p>",
                         n, node.from, node.to, p)
         [] p = "heading" ->
               IF name = "HeaderMark" THEN Html(<<>>)
               ELSE IF name \notin HEADING_TYPES THEN Null
               ELSE Wrap("<div class=\"cm-draftly-line-h1\"><h1 class=\"cm-draftly-h1\">",
                         children, "</h1></div>\n", n, node.from, node.to, p)
         [] p = "inline" ->
               IF \E t \in INLINE_TYPES : getMarkerNames(t) = name THEN Html(<<>>)
               ELSE IF name \notin INLINE_TYPES THEN Null
               ELSE Wrap("<span class=\"cm-draftly-emphasis\">", children, "</span>",
                         n, node.from, node.to, p)
         [] p = "mermaid" ->
               IF name = "MermaidBlock"
               THEN Html(<<Token(mermaidHtml(outcome), node.from, n, p)>>)
               ELSE IF name = "MermaidBlockMark" THEN Html(<<>>)
               ELSE Null
         [] p = "list" ->
               IF name = "BulletList"
               THEN Wrap("<ul class=\"cm-draftly-list-line-ul cm-draftly-preview\">", children, "</ul>\n",
                         n, node.from, node.to, p)
               ELSE IF name = "ListItem"
               THEN Wrap("<li>", children, "</li>\n", n, node.from, node.to, p)
               ELSE IF name = "Task" THEN Html(children)
               ELSE IF name = "TaskMarker"
               THEN Html(<<Token("<input type=\"checkbox\" class=\"cm-draftly-task-checkbox\" disabled ", node.from, n, p),
                           Token(IF \E c \in Range(sliceDoc(d, node.from, node.to)) : c \in {"x", "X"}
                                 THEN "checked" ELSE "", node.from, n, p),
                           Token(" />", node.to, n, p)>>)
               ELSE IF name = "ListMark" THEN Html(<<>>)
               ELSE Null
         [] p = "math" ->
               IF name = "InlineMath"
               THEN Html(<<Token(mathHtml(sliceDoc(d, node.from, node.to)), node.from, n, p)>>)
               ELSE IF name = "InlineMathMark" THEN Html(<<>>)
               ELSE Null
         [] p = "custom" ->
               IF name # "Paragraph" THEN Null
               ELSE Wrap("<div class=\"custom\">", children, "</div>",
                         n, node.from, node.to, p)
         [] OTHER -> Null

\* plugin.requiredNodes
requiredNodes(p) ==
    CASE p = "paragraph" -> {"Paragraph"}
      [] p = "heading" -> HEADING_TYPES \cup {"HeaderMark"}
      [] p = "inline" -> INLINE_TYPES \cup {"EmphasisMark", "StrikethroughMark",
                                            "SubscriptMark", "SuperscriptMark",
                                            "HighlightMark"}
      [] p = "mermaid" -> {"MermaidBlock", "MermaidBlockMark"}
      [] p = "list" -> {"BulletList", "OrderedList", "ListItem", "ListMark",
                        "Task", "TaskMarker"}
      [] p = "math" -> {"InlineMath", "MathBlock", "InlineMathMark", "MathBlockMark"}
      [] p = "custom" -> {"Paragraph", "Emphasis"}
      [] OTHER -> {}

\* plugins that define the optional renderToHTML
\* (HTMLPlugin defines none)
HasRenderToHTML(p) ==
    p \in {"paragraph", "heading", "inline", "list", "mermaid", "math", "custom"}

\* renderToHTML is an async method: every call returns a Promise
IsAsync(p) == p = "mermaid"

\* a call of p's renderToHTML for node n that awaits a deferred result
IsDeferredCall(p, d, n) == p = "mermaid" /\ Docs[d].nodes[n].name = "MermaidBlock"

\* preview/default-renderers.ts defaultRenderers
defaultRenderers == {"Document", "Paragraph"}

defaultRenderer(d, n, children) ==
    LET node == Docs[d].nodes[n]
    IN IF node.name = "Document" THEN children
       ELSE <<Token("<p>", node.from, n, "default")>> \o children
            \o <<Token("</p>\n", node.to, n, "default")>>

\* the text of a leaf no renderer handles, as renderNode returns it
leafText(d, n) ==
    TextTokens(sliceDoc(d, Docs[d].nodes[n].from, Docs[d].nodes[n].to),
               Docs[d].nodes[n].from, n, "leaf")

\* the text between children, appended as it is in the source
gapTextUnescaped(d, n, from, to) ==
    IF from < to THEN TextTokens(sliceDoc(d, from, to), from, n, "gap") ELSE <<>>

\* the escaped text between children
gapText(d, n, from, to) ==
    IF from < to THEN TextTokens(escapeHtml(sliceDoc(d, from, to)), from, n, "gap")
    ELSE <<>>

----------------------------------------------------------------------------
(* PreviewRenderer, asynchronous revision (plugins/code-plugin.ts).  A walk *)
(* is a function of the outcomes res of the deferred calls it makes, in    *)
(* the order it makes them; used counts the calls made so far, and the     *)
(* walk is suspended at its next await while Len(res) is short of them.    *)

outcomeAt(res, k) == IF k <= Len(res) THEN res[k] ELSE "pending"

\* a node-to-plugin map whose lists are ordered by decorationPriority
nodeToPluginsByPriority(plist, name) ==
    SelectSeq(StableSort(plist, [k \in 1..Len(plist) |-> <<decorationPriority(plist[k]), 0>>]),
              LAMBDA p : /\ HasRenderToHTML(p)
                         /\ requiredNodes(p) # {}
                         /\ name \in requiredNodes(p))

\* buildNodePluginMap, then nodeToPlugins.get(name)
nodeToPlugins(plist, name) ==
    SelectSeq(plist, LAMBDA p : /\ HasRenderToHTML(p)
                                /\ requiredNodes(p) # {}
                                /\ name \in requiredNodes(p))

RECURSIVE renderNode(_, _, _, _, _)
RECURSIVE renderChildren(_, _, _, _, _)

\* const result = await plugin.renderToHTML!(node, children, this.ctx), for
\* the children rendered just before: [handled, html, used]
pluginResult(d, p, n, res, children, deferred) ==
    [handled |-> renderToHTML(p, d, n, children.html,
                              IF deferred THEN outcomeAt(res, children.used + 1)
                              ELSE "none").handled,
     html |-> renderToHTML(p, d, n, children.html,
                           IF deferred THEN outcomeAt(res, children.used + 1)
                           ELSE "none").html,
     used |-> children.used + (IF deferred THEN 1 ELSE 0)]

\* the for loop of renderNode over the plugins registered for the node
RECURSIVE tryPlugins(_, _, _, _, _, _)
RECURSIVE tryNextPlugin(_, _, _, _, _, _)
tryNextPlugin(d, plist, ps, n, res, result) ==
    IF result.handled THEN result ELSE tryPlugins(d, plist, Tail(ps), n, res, result.used)

tryPlugins(d, plist, ps, n, res, used) ==
    IF ps = <<>> THEN [handled |-> FALSE, html |-> <<>>, used |-> used]
    ELSE tryNextPlugin(d, plist, ps, n, res,
             pluginResult(d, Head(ps), n, res, renderChildren(d, plist, n, res, used),
                          IsDeferredCall(Head(ps), d, n)))

\* a node with a default renderer, or an unknown node with children
renderedChildren(d, n, children) ==
    IF Docs[d].nodes[n].name \in defaultRenderers
    THEN [html |-> defaultRenderer(d, n, children.html), used |-> children.used]
    ELSE children

\* renderNode after the plugin loop left the node unhandled
renderUnhandled(d, plist, n, res, used) ==
    IF Docs[d].nodes[n].name \in defaultRenderers \/ childNodes(d, n) # <<>>
    THEN renderedChildren(d, n, renderChildren(d, plist, n, res, used))
    ELSE [html |-> leafText(d, n), used |-> used]

renderNodeAfter(d, plist, n, res, tried) ==
    IF tried.handled THEN [html |-> tried.html, used |-> tried.used]
    ELSE renderUnhandled(d, plist, n, res, tried.used)

renderNode(d, plist, n, res, used) ==
    renderNodeAfter(d, plist, n, res,
                    tryPlugins(d, plist, nodeToPlugins(plist, Docs[d].nodes[n].name),
                               n, res, used))

\* result += await this.renderNode(child), after the gap before the child
appendChild(acc, gap, r) == [html |-> acc.html \o gap \o r.html, used |-> r.used]

\* the while loop of renderChildren
RECURSIVE renderChildrenFrom(_, _, _, _, _, _, _)
renderChildrenFrom(d, plist, n, kids, pos, res, acc) ==
    IF kids = <<>>
    THEN [html |-> acc.html \o gapText(d, n, pos, Docs[d].nodes[n].to), used |-> acc.used]
    ELSE renderChildrenFrom(d, plist, n, Tail(kids), Docs[d].nodes[Head(kids)].to, res,
             appendChild(acc, gapText(d, n, pos, Docs[d].nodes[Head(kids)].from),
                         renderNode(d, plist, Head(kids), res, acc.used)))

\* the same with the await missing: acc.html holds what the loop appended
\* and acc.late what the children that awaited a deferred result append
\* when it settles, after the loop
appendChildUnawaited(acc, gap, r) ==
    [html |-> acc.html \o gap \o (IF r.used = acc.used THEN r.html ELSE <<>>),
     late |-> acc.late \o (IF r.used = acc.used THEN <<>> ELSE r.html),
     used |-> r.used]

RECURSIVE renderChildrenFromUnawaited(_, _, _, _, _, _, _)
renderChildrenFromUnawaited(d, plist, n, kids, pos, res, acc) ==
    IF kids = <<>>
    THEN [html |-> acc.html \o gapText(d, n, pos, Docs[d].nodes[n].to) \o acc.late,
          used |-> acc.used]
    ELSE renderChildrenFromUnawaited(d, plist, n, Tail(kids),
             Docs[d].nodes[Head(kids)].to, res,
             appendChildUnawaited(acc, gapText(d, n, pos, Docs[d].nodes[Head(kids)].from),
                                  renderNode(d, plist, Head(kids), res, acc.used)))

renderChildrenUnawaited(d, plist, n, res, used) ==
    renderChildrenFromUnawaited(d, plist, n, childNodes(d, n), Docs[d].nodes[n].from, res,
                                [html |-> <<>>, late |-> <<>>, used |-> used])

renderChildren(d, plist, n, res, used) ==
    renderChildrenFrom(d, plist, n, childNodes(d, n), Docs[d].nodes[n].from, res,
                       [html |-> <<>>, used |-> used])

\* render(): the walk from tree.topNode
render(d, plist, res) == renderNode(d, plist, 1, res, 0)

\* the deferred calls a whole walk makes
deferredCalls(d, plist) == render(d, plist, <<>>).used

----------------------------------------------------------------------------
(* PreviewRenderer, synchronous revision (preview/renderer.ts): every      *)
(* plugin that defines renderToHTML is tried for every node.  An async     *)
(* renderToHTML returns a Promise, which is not null and is concatenated   *)
(* as the string "[object Promise]".                                       *)

RECURSIVE renderNodeSync(_, _, _)
RECURSIVE renderChildrenSync(_, _, _)

\* plugin.renderToHTML(node, children, this.ctx) as the synchronous caller sees it
pluginResultSync(d, p, n, children) ==
    IF IsAsync(p)
    THEN Html(<<Token("[object Promise]", Docs[d].nodes[n].from, n, p)>>)
    ELSE renderToHTML(p, d, n, children, "none")

RECURSIVE tryPluginsSync(_, _, _, _)
RECURSIVE tryNextPluginSync(_, _, _, _, _)
tryNextPluginSync(d, plist, ps, n, result) ==
    IF result.handled THEN result ELSE tryPluginsSync(d, plist, Tail(ps), n)

tryPluginsSync(d, plist, ps, n) ==
    IF ps = <<>> THEN Null
    ELSE tryNextPluginSync(d, plist, ps, n,
             IF HasRenderToHTML(Head(ps))
             THEN pluginResultSync(d, Head(ps), n, renderChildrenSync(d, plist, n))
             ELSE Null)

renderedChildrenSync(d, n, children) ==
    IF Docs[d].nodes[n].name \in defaultRenderers THEN defaultRenderer(d, n, children)
    ELSE children

renderUnhandledSync(d, plist, n) ==
    IF Docs[d].nodes[n].name \in defaultRenderers \/ childNodes(d, n) # <<>>
    THEN renderedChildrenSync(d, n, renderChildrenSync(d, plist, n))
    ELSE leafText(d, n)

renderNodeSyncAfter(d, plist, n, tried) ==
    IF tried.handled THEN tried.html ELSE renderUnhandledSync(d, plist, n)

renderNodeSync(d, plist, n) ==
    renderNodeSyncAfter(d, plist, n, tryPluginsSync(d, plist, plist, n))

RECURSIVE renderChildrenSyncFrom(_, _, _, _, _, _)
renderChildrenSyncFrom(d, plist, n, kids, pos, acc) ==
    IF kids = <<>> THEN acc \o gapText(d, n, pos, Docs[d].nodes[n].to)
    ELSE renderChildrenSyncFrom(d, plist, n, Tail(kids), Docs[d].nodes[Head(kids)].to,
             acc \o gapText(d, n, pos, Docs[d].nodes[Head(kids)].from)
                 \o renderNodeSync(d, plist, Head(kids)))

renderChildrenSync(d, plist, n) ==
    renderChildrenSyncFrom(d, plist, n, childNodes(d, n), Docs[d].nodes[n].from, <<>>)

renderSync(d, plist) == renderNodeSync(d, plist, 1)

\* preview/preview.ts preview(): the content in its wrapper element
wrapPreview(content, d) ==
    <<Token("<div class=\"draftly-preview h-full w-full max-w-[48rem] mx-auto overflow-auto\">\n", 0, 0, "preview")>> \o content
    \o <<Token("</div>", DocLen(d), 0, "preview")>>

----------------------------------------------------------------------------
(* The playground page: the effect that renders the preview *)

MaxPasses == 2   \* preview passes the effect starts in one session

\* plugin lists handed to preview(): the built-in ones with renderToHTML of
\* this model, alone, with MermaidPlugin, with an application's plugin
\* registered after or before them, and preview()'s default, no plugins
BuiltinPreviewPlugins == <<"paragraph", "heading", "inline">>

PreviewLists ==
    {BuiltinPreviewPlugins,
     BuiltinPreviewPlugins \o <<"mermaid">>,
     BuiltinPreviewPlugins \o <<"mermaid", "custom">>,
     <<"custom">> \o BuiltinPreviewPlugins \o <<"mermaid">>,
     BuiltinPreviewPlugins \o <<"custom">>,
     BuiltinPreviewPlugins \o <<"math">>,
     <<>>}

\* the tree of DocMermaid is the one the parser yields with MermaidPlugin's
\* extension configured
Parses(d, plist) ==
    /\ d = 4 => "mermaid" \in Range(plist)
    /\ d = 5 => "math" \in Range(plist)

\* the formulas of the documents, as MathPlugin.renderToHTML hands them to renderMath
Formulas == {<<"a">>, <<"b">>}

Modes == {"live", "view", "code", "output"}

NoOutput == [html |-> <<>>, pass |-> 0, newest |-> 0]

\* the page before its data is loaded
PreviewIdle ==
    /\ revision = "async"
    /\ activePlugins = <<>>
    /\ currentContent = 0 - 1
    /\ mode = "live"
    /\ passes = <<>>
    /\ output = NoOutput
    /\ mermaidCounter = 0
    /\ katexThrows = {}

PreviewInit ==
    /\ revision \in {"sync", "async"}
    /\ activePlugins \in PreviewLists
    /\ currentContent = 0 - 1
    /\ mode = "live"
    /\ passes = <<>>
    /\ output = NoOutput
    /\ mermaidCounter = 0
    /\ katexThrows \in (IF "math" \in Range(activePlugins) THEN SUBSET Formulas ELSE {{}})

\* await preview(content, {plugins}) in the page, for the outcomes res
previewHtml(rev, d, plist, res) ==
    wrapPreview(IF rev = "sync" THEN renderSync(d, plist) ELSE render(d, plist, res).html, d)

\* the deferred calls the pass for content c awaits before it can finish
awaited(rev, c, plist) == IF rev = "sync" THEN 0 ELSE deferredCalls(c, plist)

\* the renderMermaid calls of a synchronous walk: the Promise of each
\* MermaidPlugin.renderToHTML call is not awaited, but the call has run up
\* to its await and has taken an id
unawaitedCalls(c, plist) ==
    IF "mermaid" \in Range(plist)
    THEN Cardinality({i \in 1..Len(Docs[c].nodes) : Docs[c].nodes[i].name = "MermaidBlock"})
    ELSE 0

NoCall == 0 - 1

\* the effect body, run after a render in which currentContent, contents or
\* mode changed: c and m are the new values.  A walk that reaches a deferred
\* call takes the call's id from mermaidCounter (mermaidCounter++) and is
\* suspended; pending is the id of the call a pass awaits
RunEffect(c, m) ==
    IF c = 0 - 1 \/ m \notin {"view", "output"}
    THEN UNCHANGED <<passes, output, mermaidCounter>>
    ELSE /\ Len(passes) < MaxPasses
         /\ IF awaited(revision, c, activePlugins) = 0
            THEN /\ passes' = Append(passes, [content |-> c, results |-> <<>>, done |-> TRUE,
                                              pending |-> NoCall])
                 /\ output' = [html |-> previewHtml(revision, c, activePlugins, <<>>),
                               pass |-> Len(passes) + 1, newest |-> Len(passes) + 1]
                 /\ mermaidCounter' = mermaidCounter
                                          + (IF revision = "sync"
                                             THEN unawaitedCalls(c, activePlugins) ELSE 0)
            ELSE /\ passes' = Append(passes, [content |-> c, results |-> <<>>, done |-> FALSE,
                                              pending |-> mermaidCounter])
                 /\ mermaidCounter' = mermaidCounter + 1
                 /\ UNCHANGED output

\* setCurrentContent / handleContentChange: another text is shown
SetCurrentContent(c) ==
    /\ c # currentContent
    /\ Parses(c, activePlugins)
    /\ currentContent' = c
    /\ RunEffect(c, mode)
    /\ UNCHANGED <<revision, activePlugins, mode, katexThrows>>
    /\ UNCHANGED <<viewVars, toolVars>>

SetMode(m) ==
    /\ m # mode
    /\ mode' = m
    /\ RunEffect(currentContent, m)
    /\ UNCHANGED <<revision, activePlugins, currentContent, katexThrows>>
    /\ UNCHANGED <<viewVars, toolVars>>

\* a deferred call of pass i settles; the walk goes on to its next deferred
\* call, which takes the next id, or with the last one runs to its end and
\* the page calls setOutput({html, css})
DeferredSettles(i, outcome) ==
    /\ ~passes[i].done
    /\ LET results == Append(passes[i].results, renderMermaid(outcome, passes[i].pending))
           finished == Len(results) = awaited(revision, passes[i].content, activePlugins)
       IN /\ passes' = [passes EXCEPT ![i] = [content |-> passes[i].content,
                                              results |-> results, done |-> finished,
                                              pending |-> IF finished THEN NoCall
                                                          ELSE mermaidCounter]]
          /\ mermaidCounter' = IF finished THEN mermaidCounter ELSE mermaidCounter + 1
          /\ output' = IF finished
                       THEN [html |-> previewHtml(revision, passes[i].content,
                                                  activePlugins, results),
                             pass |-> i, newest |-> Len(passes)]
                       ELSE output
    /\ UNCHANGED <<revision, activePlugins, currentContent, mode, katexThrows>>
    /\ UNCHANGED <<viewVars, toolVars>>

PreviewNext ==
    \/ \E c \in PreviewDocs : SetCurrentContent(c)
    \/ \E m \in Modes : SetMode(m)
    \/ \E i \in 1..Len(passes), outcome \in MermaidOutcomes : DeferredSettles(i, outcome)

----------------------------------------------------------------------------
(* Text.  A string is the sequence of its characters. *)

IsSpace(c) == c \in {" ", "\t", "\r", "\n"}

RECURSIVE trimStart(_)
trimStart(s) == IF s # <<>> /\ IsSpace(Head(s)) THEN trimStart(Tail(s)) ELSE s

RECURSIVE trimEnd(_)
trimEnd(s) ==
    IF s # <<>> /\ IsSpace(s[Len(s)]) THEN trimEnd(SubSeq(s, 1, Len(s) - 1)) ELSE s

\* String.prototype.trim
trim(s) == trimEnd(trimStart(s))

\* String.prototype.split with a one-character separator
RECURSIVE splitAcc(_, _, _, _)
splitAcc(s, sep, cur, acc) ==
    IF s = <<>> THEN Append(acc, cur)
    ELSE IF Head(s) = sep THEN splitAcc(Tail(s), sep, <<>>, Append(acc, cur))
    ELSE splitAcc(Tail(s), sep, Append(cur, Head(s)), acc)

split(s, sep) == splitAcc(s, sep, <<>>, <<>>)

\* Array.prototype.join
RECURSIVE join(_, _)
join(parts, sep) ==
    IF parts = <<>> THEN <<>>
    ELSE IF Len(parts) = 1 THEN parts[1]
    ELSE parts[1] \o sep \o join(Tail(parts), sep)

\* String.prototype.repeat
repeat(c, n) == [k \in 1..n |-> c]

MaxOf(S) == CHOOSE x \in S : \A y \in S : y <= x

----------------------------------------------------------------------------
(* Tables: parseTableMarkdown and formatTable of the table plugin *)

stripLeadingPipe(t) == IF t # <<>> /\ Head(t) = "|" THEN Tail(t) ELSE t

stripTrailingPipe(t) == IF t # <<>> /\ t[Len(t)] = "|" THEN SubSeq(t, 1, Len(t) - 1) ELSE t

trimAll(cells) == [k \in 1..Len(cells) |-> trim(cells[k])]

\* cells split at the pipes and left as they are written, padding included
parseCellsUntrimmed(line) ==
    split(stripTrailingPipe(stripLeadingPipe(trim(line))), "|")

\* parseCells: remove leading/trailing pipes, split by pipe, trim each cell
parseCells(line) ==
    trimAll(split(stripTrailingPipe(stripLeadingPipe(trim(line))), "|"))

stripLeadingColon(c) == IF c # <<>> /\ Head(c) = ":" THEN Tail(c) ELSE c

stripTrailingColon(c) == IF c # <<>> /\ c[Len(c)] = ":" THEN SubSeq(c, 1, Len(c) - 1) ELSE c

allDashes(c) == c # <<>> /\ \A k \in 1..Len(c) : c[k] = "-"

\* a test that accepts every delimiter cell
isDelimiterCellAny(c) == TRUE

\* /^:?-+:?$/.test(c.trim())
isDelimiterCell(c) == allDashes(stripTrailingColon(stripLeadingColon(trim(c))))

\* parseAlignment
parseAlignment(cell) ==
    IF trim(cell) # <<>> /\ Head(trim(cell)) = ":" /\ trim(cell)[Len(trim(cell))] = ":"
    THEN "center"
    ELSE IF trim(cell) # <<>> /\ trim(cell)[Len(trim(cell))] = ":" THEN "right"
    ELSE "left"

\* markdown.split("\n").filter((l) => l.trim().length > 0)
tableLines(markdown) == SelectSeq(split(markdown, "\n"), LAMBDA l : trim(l) # <<>>)

\* parseTableMarkdown returning null
NotATable == [ok |-> FALSE, headers |-> <<>>, alignments |-> <<>>, rows |-> <<>>]

parseRows(headers, delimiterCells, lines) ==
    IF ~(\A k \in 1..Len(delimiterCells) : isDelimiterCell(delimiterCells[k]))
    THEN NotATable
    ELSE [ok |-> TRUE,
          headers |-> headers,
          alignments |-> [k \in 1..Len(delimiterCells) |-> parseAlignment(delimiterCells[k])],
          rows |-> [i \in 1..(Len(lines) - 2) |-> parseCells(lines[i + 2])]]

parseLines(lines) ==
    IF Len(lines) < 2 THEN NotATable
    ELSE parseRows(parseCells(lines[1]), parseCells(lines[2]), lines)

parseTableMarkdown(markdown) == parseLines(tableLines(markdown))

\* row[c] || "", headers[c] || ""
cellAt(row, c) == IF c <= Len(row) THEN row[c] ELSE <<>>

\* Math.max(headers.length, ...rows.map((r) => r.length))
colCount(parsed) ==
    MaxOf({Len(parsed.headers)} \cup {Len(parsed.rows[r]) : r \in 1..Len(parsed.rows)})

\* max width per column, at least 3
colWidths(parsed, n) ==
    [c \in 1..n |->
        MaxOf({3, Len(cellAt(parsed.headers, c))}
              \cup {Len(cellAt(parsed.rows[r], c)) : r \in 1..Len(parsed.rows)})]

\* colWidths[colIndex] || 3 and alignments[colIndex] || "left"
widthAt(widths, c) == IF c <= Len(widths) THEN widths[c] ELSE 3

alignAt(alignments, c) == IF c <= Len(alignments) THEN alignments[c] ELSE "left"

\* padCell
padCell(text, width, align) ==
    IF width - Len(text) <= 0 THEN text
    ELSE IF align = "center"
    THEN repeat(" ", (width - Len(text)) \div 2) \o text
         \o repeat(" ", (width - Len(text)) - ((width - Len(text)) \div 2))
    ELSE IF align = "right" THEN repeat(" ", width - Len(text)) \o text
    ELSE text \o repeat(" ", width - Len(text))

\* buildDelimiter
buildDelimiter(width, align) ==
    IF align = "center" THEN <<":">> \o repeat("-", width - 2) \o <<":">>
    ELSE IF align = "right" THEN repeat("-", width - 1) \o <<":">>
    ELSE repeat("-", width)

\* "| " + cells.join(" | ") + " |"
tableLine(cells) == <<"|", " ">> \o join(cells, <<" ", "|", " ">>) \o <<" ", "|">>

\* the header, delimiter and data lines, joined by newlines
formatColumns(parsed, n, widths) ==
    join(<<tableLine([c \in 1..Len(parsed.headers) |->
                         padCell(parsed.headers[c], widthAt(widths, c),
                                 alignAt(parsed.alignments, c))]),
           tableLine([c \in 1..n |->
                         buildDelimiter(widthAt(widths, c), alignAt(parsed.alignments, c))])>>
         \o [r \in 1..Len(parsed.rows) |->
                tableLine([c \in 1..n |->
                              padCell(cellAt(parsed.rows[r], c), widthAt(widths, c),
                                      alignAt(parsed.alignments, c))])],
         <<"\n">>)

formatWidths(parsed, n) == formatColumns(parsed, n, colWidths(parsed, n))

formatParsed(markdown, parsed) ==
    IF ~parsed.ok THEN markdown ELSE formatWidths(parsed, colCount(parsed))

\* formatTable
formatTable(markdown) == formatParsed(markdown, parseTableMarkdown(markdown))

\* a body row rendered with the cells it has and no more
rowColCountOfRow(headers, row) == Len(row)

\* Math.max(headers.length, row.length) in renderToHTML
rowColCount(headers, row) == IF Len(headers) > Len(row) THEN Len(headers) ELSE Len(row)

\* ctx.sanitize(cell) || "&nbsp;": the cells of the model hold plain text,
\* which sanitize returns as it is
cellHtml(cell) == IF cell = <<>> THEN <<"&nbsp;">> ELSE cell

\* a <th> or <td>: its text-align and its content
TableCell(align, html) == [align |-> align, html |-> html]

NotRendered == [handled |-> FALSE, head |-> <<>>, body |-> <<>>]

renderParsedTable(parsed) ==
    IF ~parsed.ok THEN NotRendered
    ELSE [handled |-> TRUE,
          head |-> [c \in 1..Len(parsed.headers) |->
                       TableCell(alignAt(parsed.alignments, c), parsed.headers[c])],
          body |-> [r \in 1..Len(parsed.rows) |->
                       [c \in 1..rowColCount(parsed.headers, parsed.rows[r]) |->
                           TableCell(alignAt(parsed.alignments, c),
                                     cellHtml(cellAt(parsed.rows[r], c)))]]]

\* TablePlugin.renderToHTML for a Table node with this text
renderTableToHTML(content) == renderParsedTable(parseTableMarkdown(content))

----------------------------------------------------------------------------
(* The tables a user types *)

MaxHeaderCells == 2   \* cells of a header or delimiter row
MaxRowCells == 3      \* cells of a data row
MaxRows == 2          \* data rows of a table

SeqsOf(S, lo, hi) == UNION {[1..n -> S] : n \in lo..hi}

HeaderCells == {<<"a">>, <<"b", "b", "b", "b">>}

RowCells == {<<>>, <<"a">>}

\* delimiter cells: left, center, right, and one that is no delimiter
DelimiterCells == {<<"-", "-">>, <<":", "-", ":">>, <<"-", "-", ":">>, <<"x">>}

ValidDelimiterCells == DelimiterCells \ {<<"x">>}

\* how a row is written: "| a | b |" or "|a|b|"
TableStyles == {"spaced", "tight"}

TableInputs ==
    [headers : SeqsOf(HeaderCells, 1, MaxHeaderCells),
     delims : SeqsOf(DelimiterCells, 1, MaxHeaderCells),
     rows : SeqsOf(SeqsOf(RowCells, 1, MaxRowCells), 0, MaxRows),
     style : TableStyles]

writeLine(cells, style) ==
    IF style = "spaced" THEN tableLine(cells)
    ELSE <<"|">> \o join(cells, <<"|">>) \o <<"|">>

\* the text of the table as typed
writeTable(input) ==
    join(<<writeLine(input.headers, input.style), writeLine(input.delims, input.style)>>
         \o [r \in 1..Len(input.rows) |-> writeLine(input.rows[r], input.style)],
         <<"\n">>)

\* no table is being edited
TableIdle ==
    /\ tableInput = [headers |-> <<>>, delims |-> <<>>, rows |-> <<>>, style |-> "none"]
    /\ tableText = <<>>
    /\ tablePhase = "none"
    /\ tableHtml = NotRendered

\* the user has typed a table and the cursor is in it
TableInit ==
    /\ tableInput \in TableInputs
    /\ tableText = writeTable(tableInput)
    /\ tablePhase = "typed"
    /\ tableHtml = NotRendered

\* handleAutoFormat when the cursor has left the table, for the first time
\* or again: the table's text is replaced by formatTable of it
AutoFormat ==
    /\ tablePhase \in {"typed", "formatted"}
    /\ tableText' = formatTable(tableText)
    /\ tablePhase' = "formatted"
    /\ UNCHANGED <<tableInput, tableHtml>>
    /\ UNCHANGED <<viewVars, previewVars, codeVars, unitVars>>

\* the preview renders the Table node
RenderTable ==
    /\ tablePhase \in {"typed", "formatted"}
    /\ tableHtml' = renderTableToHTML(tableText)
    /\ tablePhase' = "rendered"
    /\ UNCHANGED <<tableInput, tableText>>
    /\ UNCHANGED <<viewVars, previewVars, codeVars, unitVars>>

TableNext == AutoFormat \/ RenderTable

----------------------------------------------------------------------------
(* Fenced code blocks: CodePlugin.parseCodeInfo.  The regular expressions  *)
(* of the source are modelled by the matches they find, positions 1-based. *)

\* the characters of a string
Chars(str) == [i \in 1..Len(str) |-> SubSeq(str, i, i)]

LowerCase == Chars("abcdefghijklmnopqrstuvwxyz")
UpperCase == Chars("ABCDEFGHIJKLMNOPQRSTUVWXYZ")
DigitChars == Chars("0123456789")

\* \d and \w
IsDigit(c) == c \in Range(DigitChars)
IsWord(c) == c \in Range(LowerCase) \cup Range(UpperCase) \cup Range(DigitChars) \cup {"_"}

\* String.prototype.toLowerCase
lowerChar(c) ==
    IF c \in Range(UpperCase)
    THEN LowerCase[CHOOSE k \in 1..Len(UpperCase) : UpperCase[k] = c]
    ELSE c

toLowerCase(s) == [k \in 1..Len(s) |-> lowerChar(s[k])]

\* parseInt(s, 10) of a string of digits
RECURSIVE parseInt(_)
parseInt(s) ==
    IF s = <<>> THEN 0
    ELSE 10 * parseInt(SubSeq(s, 1, Len(s) - 1))
         + (CHOOSE k \in 0..9 : DigitChars[k + 1] = s[Len(s)])

\* /^\d+$/.test(s)
allDigits(s) == s # <<>> /\ \A k \in 1..Len(s) : IsDigit(s[k])

MinOf(S) == CHOOSE x \in S : \A y \in S : x <= y

\* the position after the longest run of \w (of \d) that starts at i
wordRunEnd(s, i) == MinOf({j \in i..(Len(s) + 1) : j = Len(s) + 1 \/ ~IsWord(s[j])})
digitRunEnd(s, i) == MinOf({j \in i..(Len(s) + 1) : j = Len(s) + 1 \/ ~IsDigit(s[j])})

\* String.prototype.indexOf for a character and for a string, from position
\* from on; 0 when there is none
indexOfChar(s, c, from) ==
    IF \E j \in from..Len(s) : s[j] = c THEN MinOf({j \in from..Len(s) : s[j] = c}) ELSE 0

startsAt(s, lit, i) == i + Len(lit) - 1 <= Len(s) /\ SubSeq(s, i, i + Len(lit) - 1) = lit

indexOf(s, lit, from) ==
    IF \E j \in from..Len(s) : startsAt(s, lit, j)
    THEN MinOf({j \in from..Len(s) : startsAt(s, lit, j)}) ELSE 0

\* s without its characters from..to
removeRange(s, from, to) == SubSeq(s, 1, from - 1) \o SubSeq(s, to + 1, Len(s))

\* s without the ranges of the matches ms, which are in text order
RECURSIVE removeMatches(_, _)
removeMatches(s, ms) ==
    IF ms = <<>> THEN s
    ELSE removeRange(removeMatches(s, Tail(ms)), Head(ms).from, Head(ms).to)

\* remaining.match(/^(\w+)/): the language word, "" when there is none
languageOf(s) == SubSeq(s, 1, wordRunEnd(s, 1) - 1)

\* /(\w+)="([^"]*)"/ matched at position i
quotedAt(s, i) ==
    /\ i <= Len(s) /\ IsWord(s[i])
    /\ startsAt(s, <<"=", "\"">>, wordRunEnd(s, i))
    /\ indexOfChar(s, "\"", wordRunEnd(s, i) + 2) # 0

quotedMatch(s, i) ==
    [from |-> i, to |-> indexOfChar(s, "\"", wordRunEnd(s, i) + 2),
     key |-> SubSeq(s, i, wordRunEnd(s, i) - 1),
     value |-> SubSeq(s, wordRunEnd(s, i) + 2, indexOfChar(s, "\"", wordRunEnd(s, i) + 2) - 1)]

\* the matches quotedPattern.exec finds from position from on, in order
RECURSIVE quotedMatches(_, _)
quotedMatches(s, from) ==
    IF \E i \in from..Len(s) : quotedAt(s, i)
    THEN <<quotedMatch(s, MinOf({i \in from..Len(s) : quotedAt(s, i)}))>>
         \o quotedMatches(s, quotedMatch(s, MinOf({i \in from..Len(s) : quotedAt(s, i)})).to + 1)
    ELSE <<>>

\* an optional property: undefined, or set to a value
Undefined == [set |-> FALSE, value |-> <<>>]
Defined(v) == [set |-> TRUE, value |-> v]

\* the value the loop leaves in props[key]: that of the last match whose
\* key, in lower case, is key
quotedValue(ms, key) ==
    IF \E k \in 1..Len(ms) : toLowerCase(ms[k].key) = key
    THEN Defined(ms[MaxOf({k \in 1..Len(ms) : toLowerCase(ms[k].key) = key})].value)
    ELSE Undefined

\* s[i], or "" outside the string
charAt(s, i) == IF i \in 1..Len(s) THEN s[i] ELSE ""

LineNumbersWord == Chars("line-numbers")

\* /line-numbers(?:\{(\d+)\})?/ matched at position i of the literal: whether
\* the optional group takes part
hasStartLine(s, i) ==
    /\ charAt(s, i + Len(LineNumbersWord)) = "{"
    /\ digitRunEnd(s, i + Len(LineNumbersWord) + 1) > i + Len(LineNumbersWord) + 1
    /\ charAt(s, digitRunEnd(s, i + Len(LineNumbersWord) + 1)) = "}"

\* lineNumbersMatch[1] and the last position of lineNumbersMatch[0]
startLine(s, i) ==
    SubSeq(s, i + Len(LineNumbersWord) + 1, digitRunEnd(s, i + Len(LineNumbersWord) + 1) - 1)

lineNumbersEnd(s, i) ==
    IF hasStartLine(s, i) THEN digitRunEnd(s, i + Len(LineNumbersWord) + 1)
    ELSE i + Len(LineNumbersWord) - 1

\* props.lineNumbers: true, or the start line
LineNumbersUndefined == [kind |-> "undefined", n |-> 0]

lineNumbersValue(s, i) ==
    IF hasStartLine(s, i) THEN [kind |-> "number", n |-> parseInt(startLine(s, i))]
    ELSE [kind |-> "true", n |-> 0]

CopyWord == Chars("copy")

\* /\bcopy\b/ matched at position i
copyAt(s, i) ==
    /\ startsAt(s, CopyWord, i)
    /\ ~IsWord(charAt(s, i - 1))
    /\ ~IsWord(charAt(s, i + Len(CopyWord)))

\* the numbers lo..hi in order; none when lo > hi
numbersFrom(lo, hi) == [k \in 1..(hi - lo + 1) |-> lo + k - 1]

\* a range lo-hi whose upper end is left out
numbersOfExclusive(part) ==
    IF Len(split(part, "-")) = 2 /\ allDigits(split(part, "-")[1])
                                 /\ allDigits(split(part, "-")[2])
    THEN numbersFrom(parseInt(split(part, "-")[1]), parseInt(split(part, "-")[2]) - 1)
    ELSE IF allDigits(part) THEN <<parseInt(part)>>
    ELSE <<>>

\* the numbers one part of a list stands for: /^(\d+)-(\d+)$/ is a range,
\* /^\d+$/ a number, and anything else is skipped
numbersOf(part) ==
    IF Len(split(part, "-")) = 2 /\ allDigits(split(part, "-")[1])
                                 /\ allDigits(split(part, "-")[2])
    THEN numbersFrom(parseInt(split(part, "-")[1]), parseInt(split(part, "-")[2]))
    ELSE IF allDigits(part) THEN <<parseInt(part)>>
    ELSE <<>>

\* /\{([^}]+)\}/ matched at position i
braceAt(s, i) == charAt(s, i) = "{" /\ indexOfChar(s, "}", i + 1) > i + 1

\* highlightLines of lineHighlightMatch[1]
highlightLinesOf(content) ==
    Flatten([k \in 1..Len(split(content, ",")) |-> numbersOf(trim(split(content, ",")[k]))])

\* the position after \d+(?:-\d+)? at p; p when p holds no digit
numberSpecEnd(s, p) ==
    IF digitRunEnd(s, p) = p THEN p
    ELSE IF charAt(s, digitRunEnd(s, p)) = "-"
            /\ digitRunEnd(s, digitRunEnd(s, p) + 1) > digitRunEnd(s, p) + 1
    THEN digitRunEnd(s, digitRunEnd(s, p) + 1)
    ELSE digitRunEnd(s, p)

\* the position after (?:,\d+(?:-\d+)?)* at p
RECURSIVE moreSpecsEnd(_, _)
moreSpecsEnd(s, p) ==
    IF charAt(s, p) = "," /\ numberSpecEnd(s, p + 1) > p + 1
    THEN moreSpecsEnd(s, numberSpecEnd(s, p + 1))
    ELSE p

\* the position after the optional instance list at p
instancesEnd(s, p) ==
    IF numberSpecEnd(s, p) > p THEN moreSpecsEnd(s, numberSpecEnd(s, p)) ELSE p

\* instances of textMatch[2]
instancesOf(instanceStr) ==
    IF instanceStr = <<>> THEN <<>>
    ELSE Flatten([k \in 1..Len(split(instanceStr, ",")) |->
                     numbersOf(split(instanceStr, ",")[k])])

\* textHighlightPattern matched at position i
textAt(s, i) == charAt(s, i) = "/" /\ indexOfChar(s, "/", i + 1) > i + 1

textMatch(s, i) ==
    [from |-> i,
     to |-> instancesEnd(s, indexOfChar(s, "/", i + 1) + 1) - 1,
     pattern |-> SubSeq(s, i + 1, indexOfChar(s, "/", i + 1) - 1),
     instances |-> instancesOf(SubSeq(s, indexOfChar(s, "/", i + 1) + 1,
                                      instancesEnd(s, indexOfChar(s, "/", i + 1) + 1) - 1))]

\* the matches textHighlightPattern.exec finds from position from on
RECURSIVE textMatches(_, _)
textMatches(s, from) ==
    IF \E i \in from..Len(s) : textAt(s, i)
    THEN <<textMatch(s, MinOf({i \in from..Len(s) : textAt(s, i)}))>>
         \o textMatches(s, textMatch(s, MinOf({i \in from..Len(s) : textAt(s, i)})).to + 1)
    ELSE <<>>

TextHighlight(m) == [pattern |-> m.pattern, instances |-> m.instances]

\* const props: CodeBlockProperties = { language: "" }
NoProps ==
    [language |-> <<>>, title |-> Undefined, caption |-> Undefined,
     lineNumbers |-> LineNumbersUndefined, copy |-> FALSE,
     highlightLines |-> <<>>, highlightText |-> <<>>]

\* the steps of parseCodeInfo, each for the props set so far and the text
\* that remains
parseTextHighlights(props, remaining) ==
    [props EXCEPT !.highlightText =
        [k \in 1..Len(textMatches(remaining, 1)) |-> TextHighlight(textMatches(remaining, 1)[k])]]

lineHighlightAt(remaining) == MinOf({i \in 1..Len(remaining) : braceAt(remaining, i)})

parseLineHighlightAt(props, remaining, i) ==
    parseTextHighlights(
        [props EXCEPT !.highlightLines =
            highlightLinesOf(SubSeq(remaining, i + 1, indexOfChar(remaining, "}", i + 1) - 1))],
        trim(removeRange(remaining, i, indexOfChar(remaining, "}", i + 1))))

parseLineHighlights(props, remaining) ==
    IF \E i \in 1..Len(remaining) : braceAt(remaining, i)
    THEN parseLineHighlightAt(props, remaining, lineHighlightAt(remaining))
    ELSE parseTextHighlights(props, remaining)

parseCopyAt(props, remaining, i) ==
    parseLineHighlights([props EXCEPT !.copy = TRUE],
                        trim(removeRange(remaining, i, i + Len(CopyWord) - 1)))

parseCopy(props, remaining) ==
    IF \E i \in 1..Len(remaining) : copyAt(remaining, i)
    THEN parseCopyAt(props, remaining, MinOf({i \in 1..Len(remaining) : copyAt(remaining, i)}))
    ELSE parseLineHighlights(props, remaining)

parseLineNumbersAt(props, remaining, i) ==
    parseCopy([props EXCEPT !.lineNumbers = lineNumbersValue(remaining, i)],
              trim(removeRange(remaining, i, lineNumbersEnd(remaining, i))))

parseLineNumbers(props, remaining) ==
    IF indexOf(remaining, LineNumbersWord, 1) # 0
    THEN parseLineNumbersAt(props, remaining, indexOf(remaining, LineNumbersWord, 1))
    ELSE parseCopy(props, remaining)

parseQuotedMatches(props, remaining, ms) ==
    parseLineNumbers([props EXCEPT !.title = quotedValue(ms, Chars("title")),
                                   !.caption = quotedValue(ms, Chars("caption"))],
                     trim(removeMatches(remaining, ms)))

parseQuoted(props, remaining) ==
    parseQuotedMatches(props, remaining, quotedMatches(remaining, 1))

parseLanguage(remaining) ==
    parseQuoted([NoProps EXCEPT !.language = languageOf(remaining)],
                IF languageOf(remaining) # <<>>
                THEN trim(SubSeq(remaining, Len(languageOf(remaining)) + 1, Len(remaining)))
                ELSE remaining)

\* CodePlugin.parseCodeInfo
parseCodeInfo(info) ==
    IF trim(info) = <<>> THEN NoProps ELSE parseLanguage(trim(info))

\* new RegExp(pattern, "g") for a pattern of letters and groups: it throws
\* a SyntaxError when a group is not closed or a ")" closes none
RECURSIVE groupsBalanced(_, _)
groupsBalanced(pattern, depth) ==
    IF pattern = <<>> THEN depth = 0
    ELSE IF Head(pattern) = "(" THEN groupsBalanced(Tail(pattern), depth + 1)
    ELSE IF Head(pattern) = ")" THEN depth > 0 /\ groupsBalanced(Tail(pattern), depth - 1)
    ELSE groupsBalanced(Tail(pattern), depth)

newRegExpThrows(pattern) == ~groupsBalanced(pattern, 0)

\* the body of the loop over infoProps.highlightText for one highlight:
\* try { new RegExp(...); ...push the marks } catch { /* skip */ }
highlightOutcome(textHighlight) ==
    IF newRegExpThrows(textHighlight.pattern) THEN "skipped" ELSE "marked"

\* the info strings of the model: the language word and, after it, tokens
\* separated by one space
Language == Chars("tsx")

ExampleTokens ==
    <<Chars("line-numbers{5}"), Chars("title=\"hello.tsx\""), Chars("copy"),
      Chars("{2-4,5}"), Chars("/Hello/3-5")>>

\* a brace that is not closed, and a regular expression that is not valid
MalformedTokens == {Chars("{2"), Chars("/(/")}

InfoTokens ==
    Range(ExampleTokens)
        \cup {Chars("/copy/"), Chars("{3}"), Chars("Caption=\"c\""), Chars("line-numbers")}
        \cup MalformedTokens

MaxTokens == 3   \* tokens after the language word, the example's apart

\* the sequences of n different elements of S
RECURSIVE Arrangements(_, _)
Arrangements(S, n) ==
    IF n = 0 THEN {<<>>}
    ELSE UNION {{Append(a, t) : t \in S \ Range(a)} : a \in Arrangements(S, n - 1)}

InfoInputs ==
    UNION {Arrangements(InfoTokens, n) : n \in 0..MaxTokens}
        \cup Arrangements(Range(ExampleTokens), Len(ExampleTokens))

\* the text of the CodeInfo node
writeInfo(tokens) == join(<<Language>> \o tokens, <<" ">>)

\* no code block is being edited
CodeIdle ==
    /\ codeInfo = <<>>
    /\ infoProps = NoProps
    /\ infoPhase = "none"
    /\ textMarks = <<>>

\* the user typed a fenced code block with an info string
CodeInit ==
    /\ codeInfo \in InfoInputs
    /\ infoProps = NoProps
    /\ infoPhase = "typed"
    /\ textMarks = <<>>

\* buildDecorations reaches the FencedCode node: parseCodeInfo(infoText)
ParseInfo ==
    /\ infoPhase = "typed"
    /\ infoProps' = parseCodeInfo(writeInfo(codeInfo))
    /\ infoPhase' = "parsed"
    /\ UNCHANGED <<codeInfo, textMarks>>
    /\ UNCHANGED <<viewVars, previewVars, tableVars, unitVars>>

\* the text highlights of infoProps are applied to the lines of the block;
\* an exception that left the loop would end buildDecorations
ApplyHighlights ==
    /\ infoPhase = "parsed"
    /\ textMarks' = SelectSeq(infoProps.highlightText,
                              LAMBDA h : highlightOutcome(h) = "marked")
    /\ infoPhase' = IF \E k \in 1..Len(infoProps.highlightText) :
                           highlightOutcome(infoProps.highlightText[k]) = "threw"
                    THEN "threw" ELSE "applied"
    /\ UNCHANGED <<codeInfo, infoProps>>
    /\ UNCHANGED <<viewVars, previewVars, tableVars, unitVars>>

CodeNext == ParseInfo \/ ApplyHighlights

----------------------------------------------------------------------------
(* The overlap filter of HTMLPlugin.buildDecorations on its own *)

MaxCandidates == 3

MaxOffset == 5

NotFiltered == <<[from |-> 0 - 1, to |-> 0 - 1]>>

\* an element runs from the start of its opening tag to the end of its
\* closing tag
ElementRanges == {r \in [from : 0..MaxOffset, to : 0..MaxOffset] : r.from < r.to}

\* what the pairing loop can hand to the filter: the elements of the
\* documents above, and lists of elements in any order, overlapping or
\* not; two elements never start at the same tag
CandidateLists ==
    {inlineElements(d).elems : d \in HtmlDocs}
    \cup UNION {{c \in [1..n -> ElementRanges] :
                    \A j, k \in 1..n : j # k => c[j].from # c[k].from} :
                n \in 0..MaxCandidates}

FilterIdle ==
    /\ candidates = <<>>
    /\ keptElements = NotFiltered

\* the pairing loop has ended
FilterInit ==
    /\ candidates \in CandidateLists
    /\ keptElements = NotFiltered

\* inlineElements.sort(...) and the loop that fills filteredElements
FilterElements ==
    /\ keptElements = NotFiltered
    /\ keptElements' = FilterOverlapping(sortByFrom(candidates), 0 - 1, <<>>)
    /\ UNCHANGED <<candidates, exceptFilter>>

FilterNext == FilterElements

----------------------------------------------------------------------------
(* CodePlugin: text highlights of the lines of a block, in the editor and
   in the static HTML *)

MaxBlockLines == 2

MaxHighlights == 2

\* regex.exec in a loop, for a pattern of letters: the starts of the
\* occurrences of pattern in text, left to right, none overlapping another
RECURSIVE literalMatches(_, _, _)
literalMatches(text, pattern, from) ==
    IF indexOf(text, pattern, from) = 0 THEN <<>>
    ELSE <<indexOf(text, pattern, from)>>
         \o literalMatches(text, pattern, indexOf(text, pattern, from) + Len(pattern))

\* !textHighlight.instances || textHighlight.instances.includes(matchIndex)
shouldHighlight(textHighlight, matchIndex) ==
    textHighlight.instances = <<>> \/ matchIndex \in Range(textHighlight.instances)

\* the marks one highlight puts on one line; offsets count from line.from
marksOfHighlight(lineText, textHighlight) ==
    IF newRegExpThrows(textHighlight.pattern) THEN <<>>
    ELSE LET ms == literalMatches(lineText, textHighlight.pattern, 1)
             chosen == SelectSeq([n \in 1..Len(ms) |-> n],
                                 LAMBDA n : shouldHighlight(textHighlight, n))
         IN [k \in 1..Len(chosen) |->
                [from |-> ms[chosen[k]] - 1,
                 to |-> ms[chosen[k]] - 1 + Len(textHighlight.pattern)]]

\* CodePlugin.buildDecorations, the text highlights of one code line
lineTextMarks(lineText, highlightText) ==
    Flatten([h \in 1..Len(highlightText) |-> marksOfHighlight(lineText, highlightText[h])])

\* the text DOMPurify.sanitize returns for a string that holds no element
sanitizeChar(c) ==
    CASE c = "&" -> Chars("&amp;")
      [] c = "<" -> Chars("&lt;")
      [] c = ">" -> Chars("&gt;")
      [] OTHER -> <<c>>

sanitize(html) == Flatten([k \in 1..Len(html) |-> sanitizeChar(html[k])])

\* CodePlugin.highlightCodeLine for a block without language: !lang
highlightCodeLine(line) == sanitize(line)

MarkOpen == Chars("<mark class=\"cm-draftly-code-text-highlight\">")

MarkClose == Chars("</mark>")

\* result.replace(regex, ...) for one highlight
replaceMatches(result, highlight) ==
    LET ms == literalMatches(result, highlight.pattern, 1)
        n == Len(highlight.pattern)
    IN Flatten([k \in 1..Len(ms) |->
            SubSeq(result, IF k = 1 THEN 1 ELSE ms[k - 1] + n, ms[k] - 1)
            \o (IF shouldHighlight(highlight, k)
                THEN MarkOpen \o highlight.pattern \o MarkClose
                ELSE highlight.pattern)])
       \o SubSeq(result, IF ms = <<>> THEN 1 ELSE ms[Len(ms)] + n, Len(result))

\* CodePlugin.applyTextHighlights
RECURSIVE applyTextHighlights(_, _)
applyTextHighlights(htmlContent, highlights) ==
    IF highlights = <<>> THEN htmlContent
    ELSE applyTextHighlights(IF newRegExpThrows(Head(highlights).pattern) THEN htmlContent
                             ELSE replaceMatches(htmlContent, Head(highlights)),
                             Tail(highlights))

\* the lineContent of one line in renderToHTML
lineContent(line, props) ==
    IF props.highlightText # <<>>
    THEN applyTextHighlights(highlightCodeLine(line), props.highlightText)
    ELSE highlightCodeLine(line)

HighlightTokens ==
    {Chars("/Hello/"), Chars("/Hello/2"), Chars("/l/"), Chars("/l/2"), Chars("/o/1,3")}

\* info strings without a language word
HighlightInfos == UNION {Arrangements(HighlightTokens, n) : n \in 0..MaxHighlights}

CodeLines == {Chars("Hello lol"), Chars("Hello Hello"), Chars("lol")}

CodeBlocks == UNION {[1..n -> CodeLines] : n \in 1..MaxBlockLines}

NotDecorated == <<<<[from |-> 0 - 1, to |-> 0 - 1]>>>>

NotRenderedBlock == <<<<"none">>>>

HighlightIdle ==
    /\ blockInfo = <<>>
    /\ blockLines = <<>>
    /\ blockMarks = NotDecorated
    /\ blockHtml = NotRenderedBlock

\* a fenced code block is in the document
HighlightInit ==
    /\ blockInfo \in HighlightInfos
    /\ blockLines \in CodeBlocks
    /\ blockMarks = NotDecorated
    /\ blockHtml = NotRenderedBlock

\* the editor decorates the block: parseCodeInfo, then the loop over lines
DecorateBlock ==
    /\ blockLines # <<>>
    /\ blockMarks = NotDecorated
    /\ LET infoProps2 == parseCodeInfo(join(blockInfo, <<" ">>))
       IN blockMarks' = [k \in 1..Len(blockLines) |->
                            lineTextMarks(blockLines[k], infoProps2.highlightText)]
    /\ UNCHANGED <<blockInfo, blockLines, blockHtml, exceptHighlight>>

\* the preview renders the block: parseCodeInfo, then codeLines.forEach
RenderBlock ==
    /\ blockLines # <<>>
    /\ blockHtml = NotRenderedBlock
    /\ LET props == parseCodeInfo(join(blockInfo, <<" ">>))
       IN blockHtml' = [k \in 1..Len(blockLines) |-> lineContent(blockLines[k], props)]
    /\ UNCHANGED <<blockInfo, blockLines, blockMarks, exceptHighlight>>

HighlightNext == DecorateBlock \/ RenderBlock

----------------------------------------------------------------------------
(* TablePlugin.handleEnter *)

MaxEnterCols == 2

MaxEnterRows == 2

\* state.doc.lineAt(pos): [from, to] of the line that holds offset pos
lineOfText(text, pos) ==
    [from |-> MaxOf({j \in 0..pos : j = 0 \/ text[j] = "\n"}),
     to |-> MinOf({j \in pos..Len(text) : j = Len(text) \/ text[j + 1] = "\n"})]

\* isRowEmpty(rowText)
isRowEmpty(rowText) ==
    /\ trim(rowText) # <<>> /\ Head(trim(rowText)) = "|"
    /\ \A cell \in Range(split(stripTrailingPipe(stripLeadingPipe(trim(rowText))), "|")) :
           trim(cell) = <<>>

\* the offsets i with lineText[i] === "|"
pipesOf(lineText) ==
    SelectSeq([k \in 1..Len(lineText) |-> k - 1], LAMBDA i : lineText[i + 1] = "|")

\* "| " + Array.from({length: colCount}, () => "  ").join(" | ") + " |"
emptyRow(cols) == Chars("| ") \o join([k \in 1..cols |-> Chars("  ")], Chars(" | ")) \o Chars(" |")

Handled(kind, text, cursor) == [kind |-> kind, text |-> text, cursor |-> cursor]

\* handleEnter returned false: the next binding of Enter (insertNewline of
\* the default keymap) breaks the line at the cursor
passEnter(text, cursor) ==
    Handled("passed",
            SubSeq(text, 1, cursor) \o <<"\n">> \o SubSeq(text, cursor + 1, Len(text)),
            cursor + 1)

\* view.dispatch({changes: {from, to}, selection: {anchor}}): the state
\* rejects a selection beyond the end of the new document (RangeError)
dispatchRemove(text, cursor, from, to, anchor) ==
    LET newText == SubSeq(text, 1, from) \o SubSeq(text, to + 1, Len(text))
    IN IF anchor > Len(newText) THEN Handled("threw", text, cursor)
       ELSE Handled("removed", newText, anchor)

\* TablePlugin.handleEnter
handleEnter(text, cursor, table) ==
    IF ~(cursor >= table.from /\ cursor <= table.to) THEN passEnter(text, cursor)
    ELSE LET cursorLine == lineOfText(text, cursor)
             tableEndLine == lineOfText(text, table.to)
             lineText == SubSeq(text, cursorLine.from + 1, cursorLine.to)
             pipes == pipesOf(lineText)
             removeFrom == cursorLine.from - 1
             parsed == parseTableMarkdown(SubSeq(text, table.from + 1, table.to))
         IN IF cursorLine.from # tableEndLine.from THEN passEnter(text, cursor)
            ELSE IF Len(pipes) < 2 THEN passEnter(text, cursor)
            ELSE IF cursor - cursorLine.from < pipes[Len(pipes) - 1] THEN passEnter(text, cursor)
            ELSE IF isRowEmpty(lineText)
                 THEN dispatchRemove(text, cursor, MaxOf({0, removeFrom}), cursorLine.to,
                                     MinOf({MaxOf({0, removeFrom}) + 1, Len(text)}))
            ELSE IF ~parsed.ok THEN passEnter(text, cursor)
            ELSE Handled("added",
                         SubSeq(text, 1, cursorLine.to) \o <<"\n">>
                             \o emptyRow(Len(parsed.headers))
                             \o SubSeq(text, cursorLine.to + 1, Len(text)),
                         cursorLine.to + 3)

\* the rows a user leaves under the delimiter row: written cells, or the
\* empty row that Enter in the last cell adds
enterRow(cols, kind) ==
    IF kind = "empty" THEN emptyRow(cols)
    ELSE Chars("| ") \o join([k \in 1..cols |-> Chars("a")], Chars(" | ")) \o Chars(" |")

enterTableText(cols, kinds) ==
    join(<<enterRow(cols, "filled"),
           Chars("| ") \o join([k \in 1..cols |-> Chars("---")], Chars(" | ")) \o Chars(" |")>>
         \o [r \in 1..Len(kinds) |-> enterRow(cols, kinds[r])],
         <<"\n">>)

\* what follows the table: nothing, the end of its last line, or a blank
\* line and a paragraph
EnterTails == {<<>>, <<"\n">>, <<"\n", "\n", "x">>}

EnterTables ==
    {enterTableText(cols, kinds) :
        cols \in 1..MaxEnterCols,
        kinds \in UNION {[1..n -> {"filled", "empty"}] : n \in 1..MaxEnterRows}}

NoEnter == Handled("none", <<>>, 0)

EnterIdle ==
    /\ enterText = <<>>
    /\ enterCursor = 0
    /\ enterTable = [from |-> 0, to |-> 0]
    /\ enterResult = NoEnter

\* a document that starts with a table, the cursor anywhere in it
EnterInit ==
    /\ \E t \in EnterTables, tail \in EnterTails :
           /\ enterText = t \o tail
           /\ enterTable = [from |-> 0, to |-> Len(t)]
    /\ enterCursor \in 0..Len(enterText)
    /\ enterResult = NoEnter

\* the user presses Enter
PressEnter ==
    /\ enterText # <<>>
    /\ enterResult = NoEnter
    /\ enterResult' = handleEnter(enterText, enterCursor, enterTable)
    /\ UNCHANGED <<enterText, enterCursor, enterTable, exceptEnter>>

EnterNext == PressEnter

----------------------------------------------------------------------------
(* The playground page: contents, editor and the debounced save *)

MaxTyped == 2

MaxContents == 3

Content(id, title, content) == [id |-> id, title |-> title, content |-> content]

\* DEFAULT_CONTENTS, the texts cut to one letter
DEFAULT_CONTENTS == <<Content(0, "What is Draftly?", "w"), Content(1, "Walkthrough", "k")>>

Titles == {"Walkthrough", "Notes"}

NoTimer == [kind |-> "none", id |-> 0 - 1, content |-> "", data |-> <<>>, current |-> 0 - 1]

\* the callback handleContentChange schedules
EditTimer(id, content, current) ==
    [kind |-> "edit", id |-> id, content |-> content, data |-> <<>>, current |-> current]

\* the callback saveToStorage schedules
SaveTimer(data, current) ==
    [kind |-> "save", id |-> 0 - 1, content |-> "", data |-> data, current |-> current]

Stored(data, current) == [contents |-> data, current |-> current]

NoChange == "<none>"

\* value={contents[currentContent]?.content}
valueProp(data, current) ==
    IF current >= 0 /\ current < Len(data) THEN data[current + 1].content ELSE NoChange

\* the editor takes the value property when it changes and differs from
\* the text it holds
editorAfter(text, oldValue, newValue) ==
    IF newValue # oldValue /\ newValue # NoChange /\ newValue # text THEN newValue ELSE text

\* c.map((x) => x.id === id ? {...x, content} : x)
withContent(data, id, content) ==
    [k \in 1..Len(data) |->
        IF data[k].id = id THEN Content(id, data[k].title, content) ELSE data[k]]

withTitle(data, id, title) ==
    [k \in 1..Len(data) |->
        IF data[k].id = id THEN Content(id, title, data[k].content) ELSE data[k]]

PageIdle ==
    /\ pageContents = <<>>
    /\ pageCurrent = 0 - 1
    /\ editorText = NoChange
    /\ storage = Stored(<<>>, 0 - 1)
    /\ saveTimer = NoTimer
    /\ saveStatus = "idle"
    /\ indicatorTimer = FALSE
    /\ lastChange = <<>>
    /\ typed = 0

\* the page after its first load: the defaults are seeded and stored
PageLoaded ==
    /\ pageContents = DEFAULT_CONTENTS
    /\ pageCurrent = 0
    /\ editorText = DEFAULT_CONTENTS[1].content
    /\ storage = Stored(DEFAULT_CONTENTS, 0)
    /\ saveTimer = NoTimer
    /\ saveStatus = "idle"
    /\ indicatorTimer = FALSE
    /\ lastChange = [k \in 1..MaxContents |-> NoChange]
    /\ typed = 0

\* ids are 0, 1 and, for created contents, the next number not yet used
\* (uuid() never repeats)
idsUsed == {k - 1 : k \in {j \in 1..MaxContents : lastChange[j] # NoChange}}
                \cup {pageContents[k].id : k \in 1..Len(pageContents)}
                \cup {storage.contents[k].id : k \in 1..Len(storage.contents)}
                \cup {0, 1}

\* the user types a character: onChange calls handleContentChange, which
\* drops the pending callback and schedules its own
TypeText ==
    /\ pageCurrent >= 0 /\ pageCurrent < Len(pageContents)
    /\ typed < MaxTyped
    /\ typed' = typed + 1
    /\ editorText' = editorText \o "x"
    /\ saveTimer' = EditTimer(pageContents[pageCurrent + 1].id, editorText', pageCurrent)
    /\ lastChange' = [lastChange EXCEPT ![pageContents[pageCurrent + 1].id + 1] = editorText']
    /\ saveStatus' = "saving"
    /\ indicatorTimer' = FALSE
    /\ UNCHANGED <<pageContents, pageCurrent, storage, exceptSave>>

\* the 500 ms are over: the pending callback runs
SaveTimerFires ==
    /\ saveTimer # NoTimer
    /\ LET updated == IF saveTimer.kind = "edit"
                      THEN withContent(pageContents, saveTimer.id, saveTimer.content)
                      ELSE pageContents
       IN /\ pageContents' = updated
          /\ storage' = Stored(IF saveTimer.kind = "edit" THEN updated ELSE saveTimer.data,
                               saveTimer.current)
          /\ editorText' = editorAfter(editorText, valueProp(pageContents, pageCurrent),
                                       valueProp(updated, pageCurrent))
    /\ saveTimer' = NoTimer
    /\ saveStatus' = "saved"
    /\ indicatorTimer' = TRUE
    /\ UNCHANGED <<pageCurrent, lastChange, typed, exceptSave>>

\* the 2000 ms of the "saved" indicator are over
IndicatorFires ==
    /\ indicatorTimer
    /\ indicatorTimer' = FALSE
    /\ saveStatus' = "idle"
    /\ UNCHANGED <<pageContents, pageCurrent, editorText, storage, saveTimer, lastChange,
                   typed, exceptSave>>

\* what every handler below does after it changed the state:
\* saveToStorage(data, current), and the editor follows its value property
savedLater(data, current) ==
    /\ pageContents' = data
    /\ pageCurrent' = current
    /\ saveTimer' = SaveTimer(data, current)
    /\ saveStatus' = "saving"
    /\ indicatorTimer' = FALSE
    /\ editorText' = editorAfter(editorText, valueProp(pageContents, pageCurrent),
                                 valueProp(data, current))
    /\ UNCHANGED <<storage, lastChange, typed, exceptSave>>

\* handleSetCurrentContent(index)
SwitchContent(index) ==
    /\ index >= 0 /\ index < Len(pageContents)
    /\ savedLater(pageContents, index)

\* addNewContent(title)
AddNewContent(title) ==
    /\ Len(pageContents) < MaxContents
    /\ \E id \in 0..(MaxContents - 1) :
           /\ id \notin idsUsed
           /\ \A j \in 0..(id - 1) : j \in idsUsed
           /\ savedLater(Append(pageContents,
                                Content(id, title, "# " \o title \o "\n\n## Hello World")),
                         Len(pageContents))

\* the newCurrent of deleteContent
currentAfterDelete(newLen, current, index) ==
    IF newLen = 0 THEN 0 - 1
    ELSE IF current >= index THEN (IF current - 1 > 0 THEN current - 1 ELSE 0)
    ELSE current

\* deleteContent(id)
DeleteContent(id) ==
    /\ \E k \in 1..Len(pageContents) : pageContents[k].id = id
    /\ LET index == (CHOOSE k \in 1..Len(pageContents) : pageContents[k].id = id) - 1
           newContents == SelectSeq(pageContents, LAMBDA c : c.id # id)
       IN savedLater(newContents, currentAfterDelete(Len(newContents), pageCurrent, index))

\* renameContent(id, newTitle)
RenameContent(id, newTitle) ==
    /\ \E k \in 1..Len(pageContents) : pageContents[k].id = id /\ pageContents[k].title # newTitle
    /\ savedLater(withTitle(pageContents, id, newTitle), pageCurrent)

PageNext ==
    \/ TypeText
    \/ SaveTimerFires
    \/ IndicatorFires
    \/ \E index \in 0..(MaxContents - 1) : SwitchContent(index)
    \/ \E title \in Titles : AddNewContent(title)
    \/ \E id \in 0..(MaxContents - 1) : DeleteContent(id)
    \/ \E id \in 0..(MaxContents - 1), title \in Titles : RenameContent(id, title)

----------------------------------------------------------------------------
(* TaskCheckboxWidget: a click on the checkbox of a task list item *)

MaxTaskLines == 2

\* the position after the spaces that start at i
RECURSIVE skipSpaces(_, _)
skipSpaces(s, i) == IF i <= Len(s) /\ IsSpace(s[i]) THEN skipSpaces(s, i + 1) ELSE i

\* the position after (?:[-*+]|\d+\.) at i, or 0 if it does not match
listMarkEnd(s, i) ==
    IF charAt(s, i) \in {"-", "*", "+"} THEN i + 1
    ELSE IF digitRunEnd(s, i) > i /\ charAt(s, digitRunEnd(s, i)) = "." THEN digitRunEnd(s, i) + 1
    ELSE 0

\* line.text.match(/^(\s*(?:[-*+]|\d+\.)\s*)\[([ xX])\]/): the length of
\* match[1], or -1 for null
taskMatch(lineText) ==
    LET markEnd == listMarkEnd(lineText, skipSpaces(lineText, 1))
        open == skipSpaces(lineText, markEnd)
    IN IF markEnd # 0 /\ charAt(lineText, open) = "[" /\ charAt(lineText, open + 1) \in {" ", "x", "X"}
          /\ charAt(lineText, open + 2) = "]"
       THEN open - 1 ELSE 0 - 1

\* decorateTaskMarker: text.includes("x") || text.includes("X")
isChecked(markerText) == \E k \in 1..Len(markerText) : markerText[k] \in {"x", "X"}

\* TaskCheckboxWidget.toggleCheckbox of the widget that replaces marker
toggleCheckbox(text, marker) ==
    LET line == lineOfText(text, marker.from)
        lineText == SubSeq(text, line.from + 1, line.to)
        markerStart == line.from + taskMatch(lineText) + 1
        newChar == IF isChecked(SubSeq(text, marker.from + 1, marker.to)) THEN " " ELSE "x"
    IN IF taskMatch(lineText) >= 0
       THEN SubSeq(text, 1, markerStart) \o <<newChar>> \o SubSeq(text, markerStart + 2, Len(text))
       ELSE text

\* list items that hold a task: bullet and ordered lists, an item of a
\* list in a block quote
TaskLines ==
    {Chars("- [ ] a"), Chars("* [x] b"), Chars("1. [X] c"), Chars("2) [ ] d"), Chars("> - [ ] e")}

\* the items, a blank line and a paragraph
taskDocument(items) == join(items \o << <<>>, <<"z">> >>, <<"\n">>)

\* the TaskMarker node of each item: the three characters from its bracket
RECURSIVE markersOf(_, _)
markersOf(items, from) ==
    IF items = <<>> THEN <<>>
    ELSE <<[from |-> from + indexOfChar(Head(items), "[", 1) - 1,
            to |-> from + indexOfChar(Head(items), "[", 1) + 2]>>
         \o markersOf(Tail(items), from + Len(Head(items)) + 1)

NoClick == [marker |-> 0, text |-> <<>>]

TaskIdle ==
    /\ taskText = <<>>
    /\ taskCursor = 0
    /\ taskMarkers = <<>>
    /\ taskClicked = NoClick

TaskInit ==
    /\ \E items \in UNION {[1..n -> TaskLines] : n \in 1..MaxTaskLines} :
           /\ taskText = taskDocument(items)
           /\ taskMarkers = markersOf(items, 0)
    /\ taskCursor \in 0..Len(taskText)
    /\ taskClicked = NoClick

\* the checkbox that replaces marker m is there when the cursor is not in
\* the marker's line
checkboxShown(text, cursor, marker) ==
    ~(cursor >= lineOfText(text, marker.from).from /\ cursor <= lineOfText(text, marker.from).to)

\* mousedown on the checkbox of marker m
ClickCheckbox(m) ==
    /\ taskClicked = NoClick
    /\ m \in 1..Len(taskMarkers)
    /\ checkboxShown(taskText, taskCursor, taskMarkers[m])
    /\ taskClicked' = [marker |-> m, text |-> toggleCheckbox(taskText, taskMarkers[m])]
    /\ UNCHANGED <<taskText, taskCursor, taskMarkers, exceptTask>>

TaskNext == \E m \in 1..MaxTaskLines : ClickCheckbox(m)

----------------------------------------------------------------------------
(* editor/utils.ts toggleMarkdownStyle *)

MaxStyleLen == 3

MaxStyleRuns == 2

Sel(anchor, head) == [anchor |-> anchor, head |-> head]

selFrom(sel) == IF sel.anchor < sel.head THEN sel.anchor ELSE sel.head

selTo(sel) == IF sel.anchor < sel.head THEN sel.head ELSE sel.anchor

Styled(text, sel) == [text |-> text, sel |-> sel]

\* textBefore === marker && textAfter === marker
isWrapped(marker, text, sel) ==
    LET beforeFrom == MaxOf({0, selFrom(sel) - Len(marker)})
        afterTo == MinOf({Len(text), selTo(sel) + Len(marker)})
    IN /\ SubSeq(text, beforeFrom + 1, selFrom(sel)) = marker
       /\ SubSeq(text, selTo(sel) + 1, afterTo) = marker

\* a command that wraps and leaves the selection where it was
toggleKeepingSelection(marker, text, sel) ==
    LET from == selFrom(sel)
        to == selTo(sel)
    IN Styled(SubSeq(text, 1, from) \o marker \o SubSeq(text, from + 1, to) \o marker
                  \o SubSeq(text, to + 1, Len(text)),
              Sel(from, to))

\* toggleMarkdownStyle(marker)(view): the document and the selection after
\* the dispatch
toggleMarkdownStyle(marker, text, sel) ==
    LET from == selFrom(sel)
        to == selTo(sel)
        markerLen == Len(marker)
        beforeFrom == MaxOf({0, from - markerLen})
        afterTo == MinOf({Len(text), to + markerLen})
    IN IF isWrapped(marker, text, sel)
       THEN Styled(SubSeq(text, 1, beforeFrom) \o SubSeq(text, from + 1, to)
                       \o SubSeq(text, afterTo + 1, Len(text)),
                   Sel(beforeFrom, beforeFrom + (to - from)))
       ELSE IF from = to
       THEN Styled(SubSeq(text, 1, from) \o marker \o marker \o SubSeq(text, to + 1, Len(text)),
                   Sel(from + markerLen, from + markerLen))
       ELSE Styled(SubSeq(text, 1, from) \o marker \o SubSeq(text, from + 1, to) \o marker
                       \o SubSeq(text, to + 1, Len(text)),
                   Sel(from + markerLen, to + markerLen))

\* bold and italic, the markers of the inline plugin's key bindings
StyleMarkers == {Chars("*"), Chars("**")}

StyleTexts == UNION {[1..n -> {"a", "*"}] : n \in 0..MaxStyleLen}

StyleIdle ==
    /\ styleMarker = <<>>
    /\ styleOriginal = Styled(<<>>, Sel(0, 0))
    /\ styleText = <<>>
    /\ styleSelection = Sel(0, 0)
    /\ styleRuns = 0

\* an editor with some text and a selection, forward or backward
StyleInit ==
    /\ styleMarker \in StyleMarkers
    /\ styleText \in StyleTexts
    /\ styleSelection \in [anchor : 0..Len(styleText), head : 0..Len(styleText)]
    /\ styleOriginal = Styled(styleText, styleSelection)
    /\ styleRuns = 0

\* the user runs the command (Mod-b, Mod-i)
ToggleStyle ==
    /\ styleMarker # <<>>
    /\ styleRuns < MaxStyleRuns
    /\ styleRuns' = styleRuns + 1
    /\ styleText' = toggleMarkdownStyle(styleMarker, styleText, styleSelection).text
    /\ styleSelection' = toggleMarkdownStyle(styleMarker, styleText, styleSelection).sel
    /\ UNCHANGED <<styleMarker, styleOriginal, exceptStyle>>

StyleNext == ToggleStyle

UnitIdle == FilterIdle /\ HighlightIdle /\ EnterIdle /\ PageIdle /\ TaskIdle /\ StyleIdle

----------------------------------------------------------------------------
(* Specifications *)

\* the editor before the view plugin is constructed, the page not loaded
EditorInit == ViewInit /\ PreviewIdle /\ TableIdle /\ CodeIdle /\ UnitIdle

\* the page as loaded, in a build with either renderer and any plugin list
PageInit == ViewInit /\ PreviewInit /\ TableIdle /\ CodeIdle /\ UnitIdle

\* the editor with one selection range, and hooks that may throw
SpecView == EditorInit /\ [][ViewNext]_vars

\* the editor with multiple selection ranges
SpecMulti == EditorInit /\ [][MultiNext]_vars

\* the playground's preview
SpecPreview == PageInit /\ [][PreviewNext]_vars

\* a table in the editor, the rest idle
TableStart == ViewInit /\ PreviewIdle /\ TableInit /\ CodeIdle /\ UnitIdle

\* typing, auto-formatting and rendering a table
SpecHtml == EditorInit /\ [][HtmlNext]_vars

SpecTable == TableStart /\ [][TableNext]_vars

BaseIdle == ViewInit /\ PreviewIdle /\ TableIdle /\ CodeIdle

FilterStart == BaseIdle /\ FilterInit /\ HighlightIdle /\ EnterIdle /\ PageIdle /\ TaskIdle /\ StyleIdle

HighlightStart == BaseIdle /\ FilterIdle /\ HighlightInit /\ EnterIdle /\ PageIdle /\ TaskIdle /\ StyleIdle

EnterStart == BaseIdle /\ FilterIdle /\ HighlightIdle /\ EnterInit /\ PageIdle /\ TaskIdle /\ StyleIdle

SaveStart == BaseIdle /\ FilterIdle /\ HighlightIdle /\ EnterIdle /\ PageLoaded /\ TaskIdle /\ StyleIdle

TaskStart == BaseIdle /\ FilterIdle /\ HighlightIdle /\ EnterIdle /\ PageIdle /\ TaskInit /\ StyleIdle

SpecTask == TaskStart /\ [][TaskNext]_vars

StyleStart ==
    BaseIdle /\ FilterIdle /\ HighlightIdle /\ EnterIdle /\ PageIdle /\ TaskIdle /\ StyleInit

SpecStyle == StyleStart /\ [][StyleNext]_vars

SpecSave == SaveStart /\ [][PageNext]_vars

\* setTimeout: a callback that stays pending runs
SpecSaveFair == SpecSave /\ WF_vars(SaveTimerFires) /\ WF_vars(IndicatorFires)

SpecEnter == EnterStart /\ [][EnterNext]_vars

SpecHighlight == HighlightStart /\ [][HighlightNext]_vars

SpecFilter == FilterStart /\ [][FilterNext]_vars

\* a fenced code block's info string: parsed, then applied
CodeStart == ViewInit /\ PreviewIdle /\ TableIdle /\ CodeInit /\ UnitIdle

SpecCode == CodeStart /\ [][CodeNext]_vars

----------------------------------------------------------------------------
(* Properties of the view plugin *)

\* the last constructor/update call ran buildDecorations
Rebuilt ==
    \/ lastPass.kind = "construct"
    \/ lastPass.kind = "update" /\ lastPass.triggered /\ lastPass.threwIn # "onViewUpdate"

Unnumbered(dec) ==
    [kind |-> dec.kind, from |-> dec.from, to |-> dec.to, cls |-> dec.cls,
     by |-> dec.by, startSide |-> dec.startSide]

\* the annotations of plugin p in the held set, in the order p pushed them
HeldOf(p) ==
    LET mine == SelectSeq(decorations, LAMBDA dec : dec.by = p)
        byOrd == StableSort(mine, [k \in 1..Len(mine) |-> <<mine[k].ord, 0>>])
    IN [k \in 1..Len(byOrd) |-> Unnumbered(byOrd[k])]

Replaced(from, to, p) ==
    \E k \in 1..Len(decorations) :
        /\ decorations[k].kind = "replace" /\ decorations[k].by = p
        /\ decorations[k].from = from /\ decorations[k].to = to

HeadingMarkHidden(i) ==
    \E k \in 1..Len(decorations) :
        /\ decorations[k].cls = "cm-draftly-heading-mark"
        /\ decorations[k].from = Docs[doc].nodes[i].from

\* C1: reveal symmetry.  For every node a plugin renders interactively, the
\* raw markers are shown (not replaced, not hidden) if some selection range
\* overlaps the node's range, and hidden behind a widget or a styled span if
\* none does; every plugin uses that same rule.
C1_RevealSymmetry ==
    viewStatus = "ready" =>
        LET ns == Docs[doc].nodes
            elems == filteredElements(doc)
        IN /\ \A i \in 1..Len(ns) :
                  ns[i].name \in HEADING_TYPES /\ getChildren(doc, i, "HeaderMark") # <<>> =>
                      (selectionOverlapsRange(selection, ns[i].from, ns[i].to)
                          <=> ~HeadingMarkHidden(getChildren(doc, i, "HeaderMark")[1]))
           /\ \A i \in 1..Len(ns) :
                  ns[i].name \in INLINE_TYPES =>
                      \A m \in Range(getChildren(doc, i, getMarkerNames(ns[i].name))) :
                          selectionOverlapsRange(selection, ns[i].from, ns[i].to)
                              <=> ~Replaced(ns[m].from, ns[m].to, "inline")
           /\ \A e \in 1..Len(elems) :
                  selectionOverlapsRange(selection, elems[e].from, elems[e].to)
                      <=> ~Replaced(elems[e].from, elems[e].to, "html")
           /\ \A i \in 1..Len(ns) :
                  ns[i].name = "TaskMarker" =>
                      (selectionOverlapsRange(selection, lineAt(doc, ns[i].from).from,
                                              lineAt(doc, ns[i].from).to)
                          <=> ~Replaced(ns[i].from, ns[i].to, "list"))

\* C4: a buildDecorations that throws does not abort the pass.  Every
\* registered plugin is still invoked, and every plugin that did not throw
\* has all its annotations in the pass's output.
C4_ThrowDoesNotAbortPass ==
    Rebuilt =>
        \A p \in Range(plugins) :
            /\ p \in Range(calls)
            /\ ~Throws(lastPass.faults, "buildDecorations", p) =>
                   HeldOf(p) = PluginDecorations(p, doc, selection)

\* a plugin threw in the pass, and a plugin invoked after it contributed
C4_Witness ==
    /\ Rebuilt
    /\ \E i, j \in 1..Len(calls) :
           /\ i < j
           /\ Throws(lastPass.faults, "buildDecorations", calls[i])
           /\ ~Throws(lastPass.faults, "buildDecorations", calls[j])
           /\ HeldOf(calls[j]) # <<>>

\* C5: no exception of plugin code or of an application callback
\* (buildDecorations, onViewReady, onViewUpdate, onNodesChange) escapes the
\* view plugin's constructor or update.
C5_NothingEscapes == viewStatus # "threw"

\* C6: after every update in which the document, the selection or the
\* viewport changed, the held annotation set is a complete from-scratch
\* build over the post-update tree and selection.
C6_FullRebuildPerTrigger ==
    lastPass.kind = "update" /\ lastPass.triggered =>
        decorations = buildDecorations(doc, selection, plugins, lastPass.faults).decorations

RegistrationIndex(p) == CHOOSE k \in 1..Len(plugins) : plugins[k] = p

\* C7: in each rebuild pass every registered plugin's buildDecorations is
\* invoked exactly once, in ascending decorationPriority, and plugins of
\* equal priority in registration order.
C7_InvocationOrder ==
    Rebuilt =>
        /\ Len(calls) = Len(plugins)
        /\ \A p \in Range(plugins) : Cardinality({k \in 1..Len(calls) : calls[k] = p}) = 1
        /\ \A i, j \in 1..Len(calls) :
               i < j =>
                   \/ decorationPriority(calls[i]) < decorationPriority(calls[j])
                   \/ /\ decorationPriority(calls[i]) = decorationPriority(calls[j])
                      /\ RegistrationIndex(calls[i]) < RegistrationIndex(calls[j])

\* a pass in which the invocation order differs from the registration
\* order and two plugins share a priority
C7_Witness ==
    /\ Rebuilt
    /\ calls # plugins
    /\ \E i, j \in 1..Len(calls) :
           i < j /\ decorationPriority(calls[i]) = decorationPriority(calls[j])

\* C8: the merged list is ordered by from, ties broken by startSide, and
\* annotations equal in both keep the order in which they were pushed.
C8_SortedStable ==
    \A i, j \in 1..Len(decorations) :
        i < j =>
            \/ decorations[i].from < decorations[j].from
            \/ /\ decorations[i].from = decorations[j].from
               /\ decorations[i].startSide < decorations[j].startSide
            \/ /\ decorations[i].from = decorations[j].from
               /\ decorations[i].startSide = decorations[j].startSide
               /\ decorations[i].ord < decorations[j].ord

\* a held list that the sort reordered and in which two annotations tie
C8_Witness ==
    /\ \E i, j \in 1..Len(decorations) :
           i < j /\ decorations[i].ord > decorations[j].ord
    /\ \E i, j \in 1..Len(decorations) :
           /\ i < j
           /\ decorations[i].from = decorations[j].from
           /\ decorations[i].startSide = decorations[j].startSide

----------------------------------------------------------------------------
(* Properties of the preview *)

\* the document and the deferred outcomes of the pass whose html is displayed
DisplayedDoc == passes[output.pass].content

DisplayedResults == passes[output.pass].results

\* the fragments of the displayed html that node n produced
OutputOf(n) == SelectSeq(output.html, LAMBDA t : t.node = n)

\* C2: a deferred render result that completes after a newer pass has
\* superseded the pass that started it is discarded: it is never written
\* into the displayed output.  Every write of the output is made by the
\* newest pass started by then.
C2_StaleResultDiscarded == output.pass = output.newest

\* the MermaidBlock nodes of document d, in document order
mermaidBlocks(d) ==
    SelectSeq([i \in 1..Len(Docs[d].nodes) |-> i],
              LAMBDA i : Docs[d].nodes[i].name = "MermaidBlock")

Tried(d, n) ==
    SelectSeq(activePlugins,
              LAMBDA p : /\ HasRenderToHTML(p)
                         /\ revision = "async" => Docs[d].nodes[n].name \in requiredNodes(p))

ReturnsHandled(p, d, n) ==
    \/ revision = "sync" /\ IsAsync(p)
    \/ renderToHTML(p, d, n, <<>>, "svg").handled

Handlers(d, n) == {k \in 1..Len(Tried(d, n)) : ReturnsHandled(Tried(d, n)[k], d, n)}

\* the first handler in registration order
FirstRegistered(d, n) == Tried(d, n)[CHOOSE k \in Handlers(d, n) : \A j \in Handlers(d, n) : k <= j]

\* the first handler in priority order, registration order among equals
FirstByPriority(d, n) ==
    Tried(d, n)[CHOOSE k \in Handlers(d, n) :
                    \A j \in Handlers(d, n) :
                        LexLess(<<decorationPriority(Tried(d, n)[k]), k>>,
                                <<decorationPriority(Tried(d, n)[j]), j>>) \/ k = j]

C10_UnhandledLeafEscaped ==
    output.pass > 0 =>
        \A n \in 1..Len(Docs[DisplayedDoc].nodes) :
            (/\ childNodes(DisplayedDoc, n) = <<>>
             /\ Handlers(DisplayedDoc, n) = {}
             /\ Docs[DisplayedDoc].nodes[n].name \notin defaultRenderers
             /\ OutputOf(n) # <<>>) =>
                Strings(OutputOf(n))
                    = escapeHtml(sliceDoc(DisplayedDoc, Docs[DisplayedDoc].nodes[n].from,
                                          Docs[DisplayedDoc].nodes[n].to))

----------------------------------------------------------------------------
(* renderChildren *)

\* the renderer whose result is node n's output: the first plugin that
\* handles it, or "none"
Winner(d, n) == IF Handlers(d, n) = {} THEN "none" ELSE FirstRegistered(d, n)

\* whether node n's output embeds renderChildren(n): the default renderers
\* and the fallback for a node with children do, and so does a plugin whose
\* template holds ${children}
UsesChildren(d, n) ==
    LET name == Docs[d].nodes[n].name
        w == Winner(d, n)
    IN \/ w = "none" /\ (name \in defaultRenderers \/ childNodes(d, n) # <<>>)
       \/ w \in {"paragraph", "custom"} /\ name = "Paragraph"
       \/ w = "heading" /\ name \in HEADING_TYPES
       \/ w = "inline" /\ name \in INLINE_TYPES

\* whether renderChildren(n) is part of the displayed string: n and all the
\* nodes above it embed their children
RECURSIVE Embedded(_, _)
Embedded(d, n) ==
    /\ UsesChildren(d, n)
    /\ Docs[d].nodes[n].parent = 0 \/ Embedded(d, Docs[d].nodes[n].parent)

\* whether node m is n or lies below n
RECURSIVE IsWithin(_, _, _)
IsWithin(d, m, n) ==
    m = n \/ (m # 0 /\ Docs[d].nodes[m].parent # 0 /\ IsWithin(d, Docs[d].nodes[m].parent, n))

\* the source offsets of node n that none of its children covers
gapOffsets(d, n) ==
    {o \in Docs[d].nodes[n].from..(Docs[d].nodes[n].to - 1) :
        \A c \in Range(childNodes(d, n)) :
            ~(Docs[d].nodes[c].from <= o /\ o < Docs[d].nodes[c].to)}

\* the fragments of the displayed html that are gap text of node n
GapsOf(n) == SelectSeq(output.html, LAMBDA t : t.node = n /\ t.by = "gap")

\* C11: renderChildren(node) is the concatenation, in document order, of the
\* escaped text of every gap between the children and of the render of each
\* child: in the displayed string the fragments are in source order, the
\* gap text of a node covers each offset that no child covers exactly once,
\* escaped, and what a child renders stands within the child's range.
C11_ChildrenCoverRange ==
    output.pass > 0 =>
        /\ \A k \in 1..(Len(output.html) - 1) : output.html[k].at <= output.html[k + 1].at
        /\ \A n \in 1..Len(Docs[DisplayedDoc].nodes) :
               Embedded(DisplayedDoc, n) =>
                   /\ \A k \in 1..(Len(GapsOf(n)) - 1) : GapsOf(n)[k].at < GapsOf(n)[k + 1].at
                   /\ {GapsOf(n)[k].at : k \in 1..Len(GapsOf(n))} = gapOffsets(DisplayedDoc, n)
                   /\ \A k \in 1..Len(GapsOf(n)) :
                          GapsOf(n)[k].s = escapeChar(Docs[DisplayedDoc].text[GapsOf(n)[k].at + 1])
                   /\ \A c \in Range(childNodes(DisplayedDoc, n)) :
                          \A k \in 1..Len(output.html) :
                              IsWithin(DisplayedDoc, output.html[k].node, c) =>
                                  /\ Docs[DisplayedDoc].nodes[c].from <= output.html[k].at
                                  /\ output.html[k].at <= Docs[DisplayedDoc].nodes[c].to

\* a displayed node with several children and gap text between them, and a
\* gap whose text had to be escaped
C11_Witness ==
    /\ output.pass > 0
    /\ \E n \in 1..Len(Docs[DisplayedDoc].nodes) :
           /\ Embedded(DisplayedDoc, n)
           /\ Len(childNodes(DisplayedDoc, n)) > 1
           /\ gapOffsets(DisplayedDoc, n) # {}
    /\ \E k \in 1..Len(output.html) :
           output.html[k].by = "gap" /\ output.html[k].s = "&lt;"

----------------------------------------------------------------------------
(* Tables *)

\* a data row with fewer cells than the header, one with more, and an
\* empty cell
RaggedInput ==
    /\ \E r \in 1..Len(tableInput.rows) : Len(tableInput.rows[r]) < Len(tableInput.headers)
    /\ \E r \in 1..Len(tableInput.rows) : Len(tableInput.rows[r]) > Len(tableInput.headers)
    /\ \E r \in 1..Len(tableInput.rows) : <<>> \in Range(tableInput.rows[r])

DelimiterRowValid == Range(tableInput.delims) \subseteq ValidDelimiterCells

\* C12: table formatting is idempotent: formatting a formatted table gives
\* the same text, for ragged rows, rows longer than the header and empty
\* cells too.
C12_FormatIdempotent ==
    tablePhase = "formatted" => formatTable(tableText) = tableText

\* a valid table with a ragged row, a long row and an empty cell, which
\* formatting changed
C12_Witness ==
    /\ tablePhase = "formatted"
    /\ DelimiterRowValid
    /\ RaggedInput
    /\ tableText # writeTable(tableInput)

\* C16: a block whose delimiter row holds a cell that does not match
\* ^:?-+:?$ after trimming is rejected by the parser as not a table, and
\* formatting returns its text unchanged.
C16_BadDelimiterRejected ==
    (tablePhase = "formatted" /\ ~DelimiterRowValid) =>
        /\ parseTableMarkdown(writeTable(tableInput)) = NotATable
        /\ tableText = writeTable(tableInput)

\* the header "| a | bbbb |" over the delimiter row "| -- | x |", after
\* auto-format ran
C16_Witness ==
    /\ tablePhase = "formatted"
    /\ tableInput.style = "spaced"
    /\ Len(tableInput.headers) = 2
    /\ tableInput.delims = <<<<"-", "-">>, <<"x">>>>

\* C17: a data row with fewer cells than the header causes no error: its
\* missing cells are rendered as empty cells, so that every rendered body
\* row has at least as many cells as the header.
C17_RaggedRowsPadded ==
    tablePhase = "rendered" =>
        /\ tableHtml.handled = DelimiterRowValid
        /\ tableHtml.handled =>
               /\ Len(tableHtml.head) = Len(tableInput.headers)
               /\ Len(tableHtml.body) = Len(tableInput.rows)
               /\ \A r \in 1..Len(tableHtml.body) :
                      /\ Len(tableHtml.body[r]) >= Len(tableHtml.head)
                      /\ \A c \in 1..Len(tableHtml.body[r]) :
                             tableHtml.body[r][c].html =
                                 IF c <= Len(tableInput.rows[r]) /\ tableInput.rows[r][c] # <<>>
                                 THEN tableInput.rows[r][c]
                                 ELSE <<"&nbsp;">>

\* a rendered table with a data row shorter than its header
C17_Witness ==
    /\ tablePhase = "rendered"
    /\ tableHtml.handled
    /\ \E r \in 1..Len(tableInput.rows) : Len(tableInput.rows[r]) < Len(tableInput.headers)

----------------------------------------------------------------------------
(* Static/interactive parity *)

\* the nodes of document d for which the static renderer, given the plugin
\* list plist, emits output produced by a plugin's renderToHTML
StaticallyRendered(d, plist) ==
    {t.node : t \in {x \in Range(render(d, plist, <<>>).html) : x.by \in Range(plist)}}

\* the WidgetType classes of the editor's plugins; Decoration.replace({}),
\* which hides a marker, carries none
WidgetClasses == {"TaskCheckboxWidget", "InlineHTMLPreviewWidget"}

\* the ranges the held annotation set replaces with a widget
WidgetRanges ==
    {<<decorations[k].from, decorations[k].to>> :
        k \in {j \in 1..Len(decorations) : /\ decorations[j].kind = "replace"
                                            /\ decorations[j].cls \in WidgetClasses}}

NodeRange(d, n) == <<Docs[d].nodes[n].from, Docs[d].nodes[n].to>>

\* the editor holds the annotations of a complete pass for a cursor
EmptySelectionBuilt ==
    /\ viewStatus = "ready"
    /\ Rebuilt
    /\ lastPass.faults = {}
    /\ Len(selection.ranges) = 1
    /\ selection.ranges[1].from = selection.ranges[1].to

\* C13: static/interactive parity.  For a fixed document and an empty
\* selection, the nodes the static renderer turns into rendered output and
\* the ranges the annotation builder replaces with widgets correspond one
\* to one: every statically rendered node's range is replaced by a widget,
\* and every replaced range is the range of exactly one statically rendered
\* node.
C13_StaticInteractiveParity ==
    EmptySelectionBuilt =>
        /\ \A n \in StaticallyRendered(doc, plugins) : NodeRange(doc, n) \in WidgetRanges
        /\ \A r \in WidgetRanges :
               Cardinality({n \in StaticallyRendered(doc, plugins) : NodeRange(doc, n) = r}) = 1

----------------------------------------------------------------------------
(* Determinism *)

\* whether each deferred call of a finished pass failed
Failed(results) == [k \in 1..Len(results) |-> results[k] = "error"]

\* the HTML that finished pass i produced
HtmlOfPass(i) == previewHtml(revision, passes[i].content, activePlugins, passes[i].results)

\* C14: determinism.  The static render is pure: two render calls for the
\* same document with the same plugin list, in which the deferred engine
\* behaved alike (the same calls failed), yield identical output.
C14_RenderRepeatable ==
    \A i, j \in 1..Len(passes) :
        (/\ passes[i].done /\ passes[j].done
         /\ passes[i].content = passes[j].content
         /\ Failed(passes[i].results) = Failed(passes[j].results)) =>
            Strings(HtmlOfPass(i)) = Strings(HtmlOfPass(j))

----------------------------------------------------------------------------
(* Failing renderers *)

\* the nodes of the displayed document whose renderer failed: the k-th
\* mermaid block when the k-th deferred call resolved to an error, and an
\* InlineMath whose formula the typesetter throws on
FailedMermaid ==
    IF revision = "async" /\ "mermaid" \in Range(activePlugins)
    THEN {mermaidBlocks(DisplayedDoc)[k] : k \in {j \in 1..Len(DisplayedResults) :
                                                     DisplayedResults[j] = "error"}}
    ELSE {}

inlineMaths(d) == {n \in 1..Len(Docs[d].nodes) : Docs[d].nodes[n].name = "InlineMath"}

latexOf(d, n) == SubSeq(Docs[d].text, Docs[d].nodes[n].from + 2, Docs[d].nodes[n].to - 1)

FailedMath ==
    IF "math" \in Range(activePlugins)
    THEN {n \in inlineMaths(DisplayedDoc) : latexOf(DisplayedDoc, n) \in katexThrows}
    ELSE {}

\* the displayed results with every failed call replaced by a success
AllSucceeded == [k \in 1..Len(DisplayedResults) |->
                    IF DisplayedResults[k] = "error" THEN svgOf(0) ELSE DisplayedResults[k]]

\* html without the fragments of the nodes in failed
Rest(html, failed) == SelectSeq(html, LAMBDA t : t.node \notin failed)

----------------------------------------------------------------------------
(* parseCodeInfo *)

\* C18: parsing the info string
\* tsx line-numbers{5} title="hello.tsx" copy {2-4,5} /Hello/3-5
\* yields exactly language "tsx", lineNumbers 5, title "hello.tsx", copy
\* true, highlightLines [2,3,4,5] and highlightText [{pattern: "Hello",
\* instances: [3,4,5]}], and no other property.
C18_ExampleParsed ==
    (infoPhase = "parsed" /\ codeInfo = ExampleTokens) =>
        infoProps = [language |-> Chars("tsx"),
                     title |-> Defined(Chars("hello.tsx")),
                     caption |-> Undefined,
                     lineNumbers |-> [kind |-> "number", n |-> 5],
                     copy |-> TRUE,
                     highlightLines |-> <<2, 3, 4, 5>>,
                     highlightText |-> <<[pattern |-> Chars("Hello"),
                                          instances |-> <<3, 4, 5>>]>>]

\* the example, written as in the specification, has been parsed
C18_Witness ==
    /\ infoPhase = "parsed"
    /\ codeInfo = ExampleTokens
    /\ writeInfo(codeInfo)
           = Chars("tsx line-numbers{5} title=\"hello.tsx\" copy {2-4,5} /Hello/3-5")

IsHighlightSpec(token) == Head(token) = "/"
IsLineRangeSet(token) == Head(token) = "{"
IsLineNumbersFlag(token) == startsAt(token, LineNumbersWord, 1)

\* an info string of well-formed tokens with at most one line-numbers flag
\* and one line-range set
WellFormedInfo(tokens) ==
    /\ Range(tokens) \cap MalformedTokens = {}
    /\ Len(SelectSeq(tokens, IsLineRangeSet)) <= 1
    /\ Len(SelectSeq(tokens, IsLineNumbersFlag)) <= 1

\* the orders of the same tokens that keep the highlight specs in their
\* relative order
Reorderings(tokens) ==
    {q \in Arrangements(Range(tokens), Len(tokens)) :
        SelectSeq(q, IsHighlightSpec) = SelectSeq(tokens, IsHighlightSpec)}

\* C19: the parsed properties do not depend on the order of the tokens that
\* follow the language word: every permutation of the same quoted pairs,
\* line-numbers flag, copy flag, line-range set and highlight specs (the
\* specs in the same relative order) parses to the same properties.
C19_OrderIndependent ==
    (infoPhase = "parsed" /\ WellFormedInfo(codeInfo)) =>
        \A q \in Reorderings(codeInfo) : parseCodeInfo(writeInfo(q)) = infoProps

\* tokens without the k-th
without(tokens, k) == SubSeq(tokens, 1, k - 1) \o SubSeq(tokens, k + 1, Len(tokens))

wellFormedHighlights(props) ==
    SelectSeq(props.highlightText, LAMBDA h : ~newRegExpThrows(h.pattern))

\* C20: parsing and applying an info string never raises; a malformed
\* fragment (a brace that is not closed, a regular expression that is not
\* valid) is dropped silently, and every well-formed token of the line is
\* parsed to the value it has without the malformed fragment.
C20_MalformedDropped ==
    /\ infoPhase # "threw"
    /\ infoPhase \in {"parsed", "applied"} =>
           \A k \in 1..Len(codeInfo) :
               (/\ codeInfo[k] \in MalformedTokens
                /\ Range(without(codeInfo, k)) \cap MalformedTokens = {}) =>
                   /\ [infoProps EXCEPT !.highlightText = wellFormedHighlights(infoProps)]
                          = parseCodeInfo(writeInfo(without(codeInfo, k)))
                   /\ infoPhase = "applied" =>
                          textMarks = parseCodeInfo(writeInfo(without(codeInfo, k))).highlightText

----------------------------------------------------------------------------
(* A buildDecorations that throws part-way *)

\* the plugins whose buildDecorations threw in the last pass
ThrewInBuild == {p \in Range(plugins) : Throws(lastPass.faults, "buildDecorations", p)}

\* C27: if a plugin's buildDecorations throws after it has pushed some
\* annotations into the shared collection, none of that plugin's
\* annotations of that pass are in the pass's output.
C27_FailedPluginContributesNothing ==
    (viewStatus = "ready" /\ Rebuilt) =>
        \A p \in ThrewInBuild : HeldOf(p) = <<>>

----------------------------------------------------------------------------
(* Inline HTML: pairing, orphans, overlap filter *)

\* the decorations of the HTML plugin that touch the range from..to
HtmlDecosAt(from, to) ==
    {k \in 1..Len(decorations) : /\ decorations[k].by = "html"
                                 /\ decorations[k].from < to
                                 /\ decorations[k].to > from}

\* the range from..to is shown as source with the tag style
StyledAsSource(from, to) ==
    \E k \in 1..Len(decorations) :
        /\ decorations[k].by = "html" /\ decorations[k].kind = "mark"
        /\ decorations[k].cls = "cm-draftly-html-tag"
        /\ decorations[k].from = from /\ decorations[k].to = to

\* C22: for <b>x<i>y</i>z</b> the pairing yields exactly one element, the
\* <b>...</b> pair from the start to the end of the text; the <i>...</i>
\* pair lies inside it (its tags are consumed by that element and give no
\* element of their own) and no tag is an orphan.
C22_NestedPairResolved ==
    (viewStatus = "ready" /\ Docs[doc] = Document(DocNested) /\ "html" \in Range(plugins)) =>
        LET paired == inlineElements(doc)
        IN /\ paired.elems = <<[from |-> 0, to |-> DocLen(doc)]>>
           /\ filteredElements(doc) = paired.elems
           /\ paired.used = 1..Len(htmlTags(doc))
           /\ \A i \in 1..Len(htmlTags(doc)) :
                  /\ StyledAsSource(htmlTags(doc)[i].from, htmlTags(doc)[i].to)
                  /\ Cardinality(HtmlDecosAt(htmlTags(doc)[i].from, htmlTags(doc)[i].to)) = 1

C22_Witness ==
    /\ viewStatus = "ready" /\ Docs[doc] = Document(DocNested) /\ "html" \in Range(plugins)
    /\ selection.ranges[selection.main].from = 5
    /\ StyledAsSource(4, 7)

\* an opening tag for which the search finds no close on its line
UnmatchedOpen(d, i) ==
    LET tags == htmlTags(d)
    IN /\ ~tags[i].isClosing /\ ~tags[i].isSelfClosing
       /\ FindClose(tags, i, i + 1, 1, lineAt(d, tags[i].from).to) = 0

\* tag i lies between the tags of a pair
Enclosed(d, i) ==
    \E e \in Range(inlineElements(d).elems) :
        e.from < htmlTags(d)[i].from /\ htmlTags(d)[i].to < e.to

\* tag i is an orphan shown as source: no element consumed it, and the one
\* decoration on it is the tag style
OrphanAsSource(d, i) ==
    /\ i \notin inlineElements(d).used
    /\ StyledAsSource(htmlTags(d)[i].from, htmlTags(d)[i].to)
    /\ Cardinality(HtmlDecosAt(htmlTags(d)[i].from, htmlTags(d)[i].to)) = 1

Disjoint(a, b) == a.to <= b.from \/ b.to <= a.from

\* C24: the elements kept by the overlap filter are pairwise disjoint: in
\* order of start, each starts at or after the end of the one kept before
\* it; a candidate is dropped only when it starts inside a kept element
\* that starts before it, so of overlapping candidates the earliest-starting,
\* enclosing one is what stays.
C24_KeptElementsDisjoint ==
    keptElements # NotFiltered =>
        /\ \A k \in 1..(Len(keptElements) - 1) : keptElements[k].to <= keptElements[k + 1].from
        /\ \A j, k \in 1..Len(keptElements) : j # k => Disjoint(keptElements[j], keptElements[k])
        /\ Range(keptElements) \subseteq Range(candidates)
        /\ \A c \in Range(candidates) \ Range(keptElements) :
               \E e \in Range(keptElements) : e.from < c.from /\ c.from < e.to
        /\ \A c \in Range(candidates) :
               (\A o \in Range(candidates) : o = c \/ Disjoint(o, c) \/ (c.from < o.from /\ o.to <= c.to))
                   => (c \in Range(keptElements)
                       \/ \E e \in Range(keptElements) : e.from < c.from /\ c.from < e.to)

C24_Witness ==
    /\ keptElements # NotFiltered
    /\ Len(keptElements) = 2
    /\ Len(candidates) = 3
    /\ \E c \in Range(candidates) \ Range(keptElements) :
           c.from > keptElements[1].from /\ c.to <= keptElements[1].to
    /\ candidates[1].from > candidates[2].from

----------------------------------------------------------------------------
(* Text highlights with instance selectors *)

\* the highlights of the block's info string
BlockHighlights == parseCodeInfo(join(blockInfo, <<" ">>)).highlightText

\* the n-th match of highlight h on a line is selected
Selected(h, n) == h.instances = <<>> \/ n \in Range(h.instances)

\* what the claim asks to be highlighted on a line: the ranges of the
\* selected matches, and the offsets they cover
SelectedRanges(line, hs) ==
    {[from |-> literalMatches(line, hs[h].pattern, 1)[n] - 1,
      to |-> literalMatches(line, hs[h].pattern, 1)[n] - 1 + Len(hs[h].pattern)] :
        <<h, n>> \in {x \in (1..Len(hs)) \X (1..Len(line)) :
                         /\ x[2] <= Len(literalMatches(line, hs[x[1]].pattern, 1))
                         /\ Selected(hs[x[1]], x[2])}}

SelectedOffsets(line, hs) ==
    {p \in 0..(Len(line) - 1) : \E r \in SelectedRanges(line, hs) : r.from <= p /\ p < r.to}

\* what a browser shows of a line's HTML: the characters outside tags, each
\* with whether it lies in a mark element
RECURSIVE Shown(_, _, _)
Shown(html, i, depth) ==
    IF i > Len(html) THEN <<>>
    ELSE IF html[i] = "<"
         THEN IF indexOfChar(html, ">", i) = 0 THEN <<>>
              ELSE Shown(html, indexOfChar(html, ">", i) + 1,
                         IF startsAt(html, Chars("</mark"), i)
                         THEN (IF depth > 0 THEN depth - 1 ELSE 0)
                         ELSE IF startsAt(html, Chars("<mark"), i) THEN depth + 1
                         ELSE depth)
         ELSE <<[c |-> html[i], marked |-> depth > 0]>> \o Shown(html, i + 1, depth)

ShownText(html) == [k \in 1..Len(Shown(html, 1, 0)) |-> Shown(html, 1, 0)[k].c]

ShownMarked(html) ==
    {k - 1 : k \in {j \in 1..Len(Shown(html, 1, 0)) : Shown(html, 1, 0)[j].marked}}

\* C21: matches of a highlight's pattern are numbered from 1 on every code
\* line anew; the n-th match on a line is highlighted exactly when the
\* highlight has no selector or n is in it, by the editor's marks and in
\* the static HTML of the line alike.
C21_InstancesPerLine ==
    /\ blockMarks # NotDecorated =>
           \A k \in 1..Len(blockLines) :
               Range(blockMarks[k]) = SelectedRanges(blockLines[k], BlockHighlights)
    /\ blockHtml # NotRenderedBlock =>
           \A k \in 1..Len(blockLines) :
               /\ ShownText(blockHtml[k]) = blockLines[k]
               /\ ShownMarked(blockHtml[k]) = SelectedOffsets(blockLines[k], BlockHighlights)

\* the editor's half of C21
C21_EditorMarks ==
    blockMarks # NotDecorated =>
        \A k \in 1..Len(blockLines) :
            Range(blockMarks[k]) = SelectedRanges(blockLines[k], BlockHighlights)

\* the static half of C21 for a block with one highlight
C21_SingleHighlightStatic ==
    (blockHtml # NotRenderedBlock /\ Len(blockInfo) <= 1) =>
        \A k \in 1..Len(blockLines) :
            /\ ShownText(blockHtml[k]) = blockLines[k]
            /\ ShownMarked(blockHtml[k]) = SelectedOffsets(blockLines[k], BlockHighlights)

----------------------------------------------------------------------------
(* Plugin lifecycle *)

\* the positions of the calls of hook h of plugin p
HookCalls(h, p) == {k \in 1..Len(hooks) : hooks[k] = Hook(h, p)}

\* C25: for every plugin of a view, onViewReady is called exactly once,
\* after the plugin's onRegister and before the first call of the plugin's
\* buildDecorations or onViewUpdate for that view.  (The calls of update()
\* come after every call of the constructor, so the constructor's calls
\* decide the order.)
C25_LifecycleOrder ==
    viewStatus = "ready" =>
        \A p \in Range(plugins) :
            /\ Cardinality(HookCalls("onViewReady", p)) = 1
            /\ \A r \in HookCalls("onViewReady", p) :
                   /\ \E g \in HookCalls("onRegister", p) : g < r
                   /\ \A b \in HookCalls("buildDecorations", p) : r < b

\* what does hold: one onViewReady per plugin, after its onRegister
C25_ReadyOnceAfterRegister ==
    viewStatus = "ready" =>
        \A p \in Range(plugins) :
            /\ Cardinality(HookCalls("onViewReady", p)) = 1
            /\ \A r \in HookCalls("onViewReady", p) :
                   \E g \in HookCalls("onRegister", p) : g < r

----------------------------------------------------------------------------
(* Enter on the empty last row of a table *)

EnterLine == lineOfText(enterText, enterCursor)

EnterLineText == SubSeq(enterText, EnterLine.from + 1, EnterLine.to)

\* the cursor is on the last row of the table and the row is empty
OnEmptyLastRow ==
    /\ enterText # <<>>
    /\ enterCursor <= enterTable.to
    /\ EnterLine.from = lineOfText(enterText, enterTable.to).from
    /\ isRowEmpty(EnterLineText)

\* the cursor is at or after the second-to-last pipe of its line
InLastCell ==
    /\ Len(pipesOf(EnterLineText)) >= 2
    /\ enterCursor - EnterLine.from >= pipesOf(EnterLineText)[Len(pipesOf(EnterLineText)) - 1]

\* the document without the cursor's line and the line break before it
WithoutEnterLine ==
    SubSeq(enterText, 1, EnterLine.from - 1) \o SubSeq(enterText, EnterLine.to + 1, Len(enterText))

\* the row is gone and the cursor is in the document, after the table
RowRemoved ==
    /\ enterResult.kind = "removed"
    /\ enterResult.text = WithoutEnterLine
    /\ enterResult.cursor >= EnterLine.from - 1
    /\ enterResult.cursor <= Len(enterResult.text)

\* C26: Enter with the cursor on the last row of a table, that row being
\* empty, removes the row from the document and puts the cursor after the
\* table.
C26_EmptyLastRowRemoved ==
    (enterResult # NoEnter /\ OnEmptyLastRow) => RowRemoved

\* what holds: the same with the cursor in the last cell of the row and
\* text after the table
C26_RemovedFromLastCellBeforeText ==
    (enterResult # NoEnter /\ OnEmptyLastRow /\ InLastCell /\ enterTable.to < Len(enterText))
        => RowRemoved

\* with the cursor in the last cell the row is removed or the dispatch throws
C26_LastCellAtEnd ==
    (enterResult # NoEnter /\ OnEmptyLastRow /\ InLastCell /\ enterTable.to = Len(enterText))
        => enterResult.kind = "threw"

\* with the cursor before the last cell the key is passed on
C26_BeforeLastCell ==
    (enterResult # NoEnter /\ OnEmptyLastRow /\ ~InLastCell) => enterResult.kind = "passed"

----------------------------------------------------------------------------
(* The debounced save *)

HasContent(data, id, content) ==
    \E k \in 1..Len(data) : data[k].id = id /\ data[k].content = content

\* the content with this id exists, and its last change is not both in the
\* contents state and in storage
Unapplied(id) ==
    /\ lastChange # <<>> /\ lastChange[id + 1] # NoChange
    /\ \E k \in 1..Len(pageContents) : pageContents[k].id = id
    /\ ~(/\ HasContent(pageContents, id, lastChange[id + 1])
         /\ HasContent(storage.contents, id, lastChange[id + 1]))

\* C28: no edit is lost: the last content change passed to
\* handleContentChange for a content (which holds the changes before it) is
\* eventually in the contents state and in storage, whatever else the user
\* does within the debounce window.
C28_NoEditLost ==
    \A id \in 0..(MaxContents - 1) : Unapplied(id) ~> ~Unapplied(id)

\* a change followed by no handler other than handleContentChange is saved
C28_UndisturbedChangeSaved ==
    \A id \in 0..(MaxContents - 1) :
        (saveTimer.kind = "edit" /\ saveTimer.id = id)
            ~> (~Unapplied(id) \/ saveTimer.kind = "save")

----------------------------------------------------------------------------
(* A click on a task checkbox *)

\* the offsets at which the document after the click differs from the one before
ChangedOffsets ==
    {p \in 0..(Len(taskText) - 1) : taskClicked.text[p + 1] # taskText[p + 1]}

Opposite(c) == IF c = " " THEN {"x", "X"} ELSE {" "}

\* the click changed the state character of marker m, and nothing else
Toggled(m) ==
    /\ Len(taskClicked.text) = Len(taskText)
    /\ ChangedOffsets = {taskMarkers[m].from + 1}
    /\ taskClicked.text[taskMarkers[m].from + 2] \in Opposite(taskText[taskMarkers[m].from + 2])

\* C29: a click on a rendered task checkbox changes exactly one character
\* of the document, the state character of that item's marker, to the
\* opposite state.
C29_ClickTogglesOneCharacter ==
    taskClicked # NoClick => Toggled(taskClicked.marker)

\* what holds: the same for an item whose line starts with a bullet or a
\* number and a dot
C29_ClickTogglesPlainItem ==
    (taskClicked # NoClick
        /\ taskMatch(SubSeq(taskText,
                            lineOfText(taskText, taskMarkers[taskClicked.marker].from).from + 1,
                            lineOfText(taskText, taskMarkers[taskClicked.marker].from).to)) >= 0)
        => Toggled(taskClicked.marker)

----------------------------------------------------------------------------
(* toggleMarkdownStyle twice *)

\* the command started from a selection that is not empty and not wrapped
WrappedFirst ==
    /\ styleMarker # <<>>
    /\ selFrom(styleOriginal.sel) < selTo(styleOriginal.sel)
    /\ ~isWrapped(styleMarker, styleOriginal.text, styleOriginal.sel)

====
